---- MODULE Spec2Model ----
(***************************************************************************)
(* A model of the configuration resolution engine of essh: the Lua-facing  *)
(* constructors host/task/driver/job, their field updaters, the entity     *)
(* registries with their override chains, the host selection query and     *)
(* the module importer.                                                    *)
(*                                                                         *)
(* A Lua script drives the engine one API call at a time.  A call that     *)
(* raises an error (L.RaiseError or a Go panic) can be caught by the       *)
(* script with pcall, so the state a failed call leaves behind is a state  *)
(* the next call can start from: `ret` keeps the outcome of the last call. *)
(***************************************************************************)
EXTENDS Integers, Sequences, FiniteSets, TLC

\* ------------------------------------------------------------------ bounds

\* Entities declared in one run, over all kinds.
MaxInst == 3
\* Field updates applied in one run, over all entities.
MaxUpdates == 3
\* Calls of import made in one run.
MaxImports == 3
\* Calls of filter made on one query handle.
MaxFilters == 2
\* Resolutions of driver engines made in one run.
MaxResolves == 3

\* ------------------------------------------------------------ Lua values

LNil == [t |-> "nil"]
LBool(b) == [t |-> "bool", b |-> b]
LString(s) == [t |-> "string", s |-> s]
LNumber(n) == [t |-> "number", n |-> n]
\* A callable, known by the single value it returns when it is called.
LFunction(r) == [t |-> "function", ret |-> r]
\* A table: the array part (LNil marks a hole) and the string-keyed part.
LTable(a, r) == [t |-> "table", arr |-> a, rec |-> r]
LUserData(k, i) == [t |-> "userdata", kind |-> k, id |-> i]

\* F applied to the value of x, with x evaluated once.
With(x, F(_)) == CHOOSE y \in { F(v) : v \in {x} } : TRUE
Reverse(q) == [i \in 1..Len(q) |-> q[Len(q) + 1 - i]]
EmptyMap == [k \in {} |-> LNil]
\* A map assignment that keeps the value a key already has.
PutOnce(m, k, v) == [x \in (DOMAIN m) \cup {k} |-> IF x \in DOMAIN m THEN m[x] ELSE v]
Put(m, k, v) == [x \in (DOMAIN m) \cup {k} |-> IF x = k THEN v ELSE m[x]]
Array(a) == LTable(a, EmptyMap)
Record(r) == LTable(<<>>, r)

RECURSIVE MaxNOf(_, _)
MaxNOf(a, i) == IF i = 0 THEN 0 ELSE IF a[i] # LNil THEN i ELSE MaxNOf(a, i - 1)
\* LTable.MaxN: the index of the last non-nil entry of the array part.
MaxN(tb) == MaxNOf(tb.arr, Len(tb.arr))
RawGetInt(tb, i) == IF i \in 1..Len(tb.arr) THEN tb.arr[i] ELSE LNil
RawGetString(tb, k) == IF k \in DOMAIN tb.rec THEN tb.rec[k] ELSE LNil

toBool(v) == [ok |-> v.t = "bool", b |-> IF v.t = "bool" THEN v.b ELSE FALSE]
toString(v) == [ok |-> v.t = "string", s |-> IF v.t = "string" THEN v.s ELSE ""]
toLTable(v) == v.t = "table"
toLFunction(v) == v.t = "function"
toFloat64(v) == v.t = "number"

\* Keys of the string-keyed part in the order LTable.ForEach visits them.
RECURSIVE KeySeq(_)
KeySeq(S) == IF S = {} THEN <<>> ELSE LET k == CHOOSE x \in S : TRUE IN <<k>> \o KeySeq(S \ {k})
RECURSIVE ArrEntries(_, _)
ArrEntries(a, i) ==
    IF i > Len(a) THEN <<>>
    ELSE (IF a[i] # LNil THEN << <<LNumber(i), a[i]>> >> ELSE <<>>) \o ArrEntries(a, i + 1)
\* LTable.ForEach: the non-nil array entries, then the string-keyed entries.
ForEach(tb) ==
    LET ks == KeySeq(DOMAIN tb.rec)
    IN ArrEntries(tb.arr, 1) \o [i \in 1..Len(ks) |-> <<LString(ks[i]), tb.rec[ks[i]]>>]

\* Go values: what toGoValue makes of a Lua value.
RECURSIVE toGoValue(_)
toGoValue(v) ==
    CASE v.t = "nil" -> [g |-> "nil"]
      [] v.t = "bool" -> [g |-> "bool", b |-> v.b]
      [] v.t = "string" -> [g |-> "string", s |-> v.s]
      [] v.t = "number" -> [g |-> "float64", n |-> v.n]
      [] v.t = "table" ->
            IF MaxN(v) = 0
            THEN [g |-> "map", m |-> [k \in DOMAIN v.rec |-> toGoValue(v.rec[k])],
                  n |-> Len(ArrEntries(v.arr, 1)) + Cardinality(DOMAIN v.rec)]
            ELSE [g |-> "slice", e |-> [i \in 1..MaxN(v) |-> toGoValue(v.arr[i])]]
      [] OTHER -> [g |-> "lvalue", v |-> v]

toSlice(v) ==
    LET gov == toGoValue(v)
    IN CASE gov.g = "slice" -> [ok |-> TRUE, e |-> gov.e]
         [] gov.g = "map" /\ gov.n = 0 -> [ok |-> TRUE, e |-> <<>>]
         [] OTHER -> [ok |-> FALSE, e |-> <<>>]

\* The string elements of a Go slice, in order; other elements are skipped.
RECURSIVE StringsOf(_)
StringsOf(e) ==
    IF e = <<>> THEN <<>>
    ELSE (IF Head(e).g = "string" THEN <<Head(e).s>> ELSE <<>>) \o StringsOf(Tail(e))

\* ---------------------------------------------------------------- errors

\* An error: its kind, and the field its message names ("" if it names none).
NoErr == [kind |-> "none", field |-> ""]
Err(k, f) == [kind |-> k, field |-> f]

\* ------------------------------------------------------------ the entities

\* A Host as NewHost leaves it; Child and Parent are arena indices, 0 for nil.
NewHost ==
    [Name |-> "", Child |-> 0, Parent |-> 0, LValues |-> EmptyMap,
     SSHConfig |-> EmptyMap, Props |-> EmptyMap, Tags |-> <<>>,
     HooksBeforeConnect |-> <<>>, HooksAfterConnect |-> <<>>,
     HooksAfterDisconnect |-> <<>>, Description |-> "", Hidden |-> FALSE]

\* A Task as NewTask leaves it.
NewTask ==
    [Name |-> "", Child |-> 0, Parent |-> 0, LValues |-> EmptyMap,
     Backend |-> "", Targets |-> <<>>, Filters |-> <<>>, Description |-> "",
     Pty |-> FALSE, Driver |-> "", Parallel |-> FALSE, Privileged |-> FALSE,
     Disabled |-> FALSE, Hidden |-> FALSE, Script |-> <<>>, File |-> "",
     UsePrefix |-> FALSE, Prefix |-> "", Prepare |-> LNil, Props |-> EmptyMap,
     Args |-> <<>>]

\* A Driver as NewDriver leaves it; Engine is the value the resolver closes over.
NewDriver ==
    [Name |-> "", Child |-> 0, Parent |-> 0, LValues |-> EmptyMap, Engine |-> LNil]

TASK_BACKEND_LOCAL == "local"
TASK_BACKEND_REMOTE == "remote"

\* Keys whose first character unicode.IsUpper accepts.
UpperKeys == {"HostName", "User"}
IsUpperKey(key) == key \in UpperKeys

Upd(o, e) == [obj |-> o, err |-> e]

\* A props table: every key and value a string, or the first offender is an error.
RECURSIVE propsFrom(_, _)
propsFrom(entries, m) ==
    IF entries = <<>> THEN [m |-> m, err |-> NoErr]
    ELSE LET k == Head(entries)[1]
             v == Head(entries)[2]
         IN IF ~toString(k).ok THEN [m |-> m, err |-> Err("props_key", "props")]
            ELSE IF ~toString(v).ok THEN [m |-> m, err |-> Err("props_value", "props")]
            ELSE propsFrom(Tail(entries), Put(m, k.s, v.s))

\* A tags table: every value a string, appended in ForEach order.
RECURSIVE tagsFrom(_, _)
tagsFrom(entries, tags) ==
    IF entries = <<>> THEN [tags |-> tags, err |-> NoErr]
    ELSE LET v == Head(entries)[2]
         IN IF toString(v).ok THEN tagsFrom(Tail(entries), Append(tags, v.s))
            ELSE [tags |-> tags, err |-> Err("unsupported_tags", "tags")]

hooksOf(tb) == [i \in 1..MaxN(tb) |-> toGoValue(RawGetInt(tb, i))]

InvalidHost(key) == Err("invalid_host_value", key)

updateHost(h0, key, value) ==
    LET h == [h0 EXCEPT !.LValues = Put(h0.LValues, key, value)]
    IN IF IsUpperKey(key)
       THEN IF toString(value).ok
            THEN Upd([h EXCEPT !.SSHConfig = Put(h.SSHConfig, key, value.s)], NoErr)
            ELSE Upd(h, Err("ssh_property_not_string", ""))
       ELSE CASE key = "props" ->
                   IF toLTable(value)
                   THEN LET r == propsFrom(ForEach(value), EmptyMap)
                        IN Upd([h EXCEPT !.Props = r.m], r.err)
                   ELSE Upd(h, InvalidHost(key))
              [] key = "hooks_before_connect" ->
                   IF toLTable(value)
                   THEN Upd([h EXCEPT !.HooksBeforeConnect = hooksOf(value)], NoErr)
                   ELSE Upd(h, InvalidHost(key))
              [] key = "hooks_after_connect" ->
                   IF toLTable(value)
                   THEN Upd([h EXCEPT !.HooksAfterConnect = hooksOf(value)], NoErr)
                   ELSE Upd(h, InvalidHost(key))
              [] key = "hooks_after_disconnect" ->
                   IF toLTable(value)
                   THEN Upd([h EXCEPT !.HooksAfterDisconnect = hooksOf(value)], NoErr)
                   ELSE Upd(h, InvalidHost(key))
              [] key = "description" ->
                   IF toString(value).ok
                   THEN Upd([h EXCEPT !.Description = value.s], NoErr)
                   ELSE Upd(h, InvalidHost(key))
              [] key = "hidden" ->
                   IF toBool(value).ok
                   THEN Upd([h EXCEPT !.Hidden = value.b], NoErr)
                   ELSE Upd(h, InvalidHost(key))
              [] key = "tags" ->
                   IF toLTable(value)
                   THEN LET r == tagsFrom(ForEach(value), <<>>)
                        IN Upd([h EXCEPT !.Tags = r.tags], r.err)
                   ELSE Upd(h, InvalidHost(key))
              [] OTHER -> Upd(h, Err("unsupported_host_field", key))

\* One segment of a script record: every value a string, or a bool spelled out.
RECURSIVE segmentFrom(_, _)
segmentFrom(entries, m) ==
    IF entries = <<>> THEN [m |-> m, err |-> NoErr]
    ELSE LET k == Head(entries)[1]
             v == Head(entries)[2]
             vs == IF toString(v).ok THEN v.s ELSE IF v.b THEN "true" ELSE "false"
         IN IF ~toString(v).ok /\ ~toBool(v).ok
            THEN [m |-> m, err |-> Err("script_entry_value", "script")]
            ELSE IF ~toString(k).ok
            THEN [m |-> m, err |-> Err("script_entry_key", "script")]
            ELSE segmentFrom(Tail(entries), Put(m, k.s, vs))

RECURSIVE toScript(_)
RECURSIVE toScriptArray(_, _, _)
RECURSIVE toScriptArrayPrepending(_, _, _)
\* The elements i..MaxN of an array, each normalised and appended to ret.
\* (toScriptArrayPrepending puts each element's segments before ret instead.)
toScriptArrayPrepending(tb, i, ret) ==
    IF i > MaxN(tb) THEN [segs |-> ret, err |-> NoErr]
    ELSE LET value == RawGetInt(tb, i)
             r == IF toLFunction(value) THEN toScript(value.ret) ELSE toScript(value)
         IN IF r.err # NoErr THEN [segs |-> <<>>, err |-> r.err]
            ELSE toScriptArrayPrepending(tb, i + 1, r.segs \o ret)
toScriptArray(tb, i, ret) ==
    IF i > MaxN(tb) THEN [segs |-> ret, err |-> NoErr]
    ELSE LET value == RawGetInt(tb, i)
             r == IF toLFunction(value) THEN toScript(value.ret) ELSE toScript(value)
         IN IF r.err # NoErr THEN [segs |-> <<>>, err |-> r.err]
            ELSE toScriptArray(tb, i + 1, ret \o r.segs)

toScript(value) ==
    IF toLTable(value)
    THEN IF MaxN(value) = 0
         THEN IF RawGetString(value, "code") = LNil
              THEN [segs |-> <<>>, err |-> Err("script_no_code", "script")]
              ELSE LET r == segmentFrom(ForEach(value), EmptyMap)
                   IN IF r.err # NoErr THEN [segs |-> <<>>, err |-> r.err]
                      ELSE [segs |-> <<r.m>>, err |-> NoErr]
         ELSE toScriptArray(value, 1, <<>>)
    ELSE IF toString(value).ok
    THEN [segs |-> << [k \in {"code"} |-> value.s] >>, err |-> NoErr]
    ELSE [segs |-> <<>>, err |-> Err("script_invalid_value", "script")]

MutexErr == Err("script_file_and_script", "")
InvalidTask(key) == Err("invalid_task_value", key)

\* updateTask whose script_file case lacks the check against script.
updateTaskFileUnchecked(t0, key, value) ==
    LET task == [t0 EXCEPT !.LValues = Put(t0.LValues, key, value)]
        flag(f) == IF toBool(value).ok THEN Upd([task EXCEPT ![f] = value.b], NoErr)
                   ELSE Upd(task, InvalidTask(key))
    IN CASE key = "backend" ->
              IF toString(value).ok
              THEN Upd([task EXCEPT !.Backend = value.s],
                       IF value.s # TASK_BACKEND_LOCAL /\ value.s # TASK_BACKEND_REMOTE
                       THEN Err("backend_must_be_local_or_remote", "backend") ELSE NoErr)
              ELSE Upd(task, NoErr)
         [] key = "targets" ->
              IF toString(value).ok THEN Upd([task EXCEPT !.Targets = <<value.s>>], NoErr)
              ELSE IF toSlice(value).ok
              THEN Upd([task EXCEPT !.Targets = StringsOf(toSlice(value).e)], NoErr)
              ELSE Upd(task, InvalidTask(key))
         [] key = "filters" ->
              IF toString(value).ok THEN Upd([task EXCEPT !.Filters = <<value.s>>], NoErr)
              ELSE IF toSlice(value).ok
              THEN Upd([task EXCEPT !.Filters = StringsOf(toSlice(value).e)], NoErr)
              ELSE Upd(task, InvalidTask(key))
         [] key = "description" ->
              IF toString(value).ok THEN Upd([task EXCEPT !.Description = value.s], NoErr)
              ELSE Upd(task, InvalidTask(key))
         [] key = "pty" -> flag("Pty")
         [] key = "driver" ->
              IF toString(value).ok THEN Upd([task EXCEPT !.Driver = value.s], NoErr)
              ELSE Upd(task, InvalidTask(key))
         [] key = "parallel" -> flag("Parallel")
         [] key = "privileged" -> flag("Privileged")
         [] key = "disabled" -> flag("Disabled")
         [] key = "hidden" -> flag("Hidden")
         [] key = "script" ->
              LET r == toScript(value)
              IN IF r.err # NoErr THEN Upd(task, r.err)
                 ELSE Upd([task EXCEPT !.Script = r.segs],
                          IF task.File # "" /\ Len(r.segs) > 0 THEN MutexErr ELSE NoErr)
         [] key = "script_file" ->
              IF toString(value).ok
              THEN Upd([task EXCEPT !.File = value.s],
                       NoErr)
              ELSE Upd(task, InvalidTask(key))
         [] key = "prefix" ->
              IF toBool(value).ok THEN Upd([task EXCEPT !.UsePrefix = value.b], NoErr)
              ELSE IF toString(value).ok
              THEN Upd([task EXCEPT !.UsePrefix = TRUE, !.Prefix = value.s], NoErr)
              ELSE Upd(task, InvalidTask(key))
         [] key = "prepare" ->
              IF toLFunction(value) THEN Upd([task EXCEPT !.Prepare = value], NoErr)
              ELSE Upd(task, Err("prepare_not_function", "prepare"))
         [] key = "props" ->
              IF toLTable(value)
              THEN LET r == propsFrom(ForEach(value), EmptyMap)
                   IN Upd([task EXCEPT !.Props = r.m], r.err)
              ELSE Upd(task, InvalidTask(key))
         [] key = "args" ->
              IF toSlice(value).ok
              THEN Upd([task EXCEPT !.Args = StringsOf(toSlice(value).e)], NoErr)
              ELSE Upd(task, InvalidTask(key))
         [] OTHER -> Upd(task, Err("unsupported_task_field", key))

updateTask(t0, key, value) ==
    LET task == [t0 EXCEPT !.LValues = Put(t0.LValues, key, value)]
        flag(f) == IF toBool(value).ok THEN Upd([task EXCEPT ![f] = value.b], NoErr)
                   ELSE Upd(task, InvalidTask(key))
    IN CASE key = "backend" ->
              IF toString(value).ok
              THEN Upd([task EXCEPT !.Backend = value.s],
                       IF value.s # TASK_BACKEND_LOCAL /\ value.s # TASK_BACKEND_REMOTE
                       THEN Err("backend_must_be_local_or_remote", "backend") ELSE NoErr)
              ELSE Upd(task, NoErr)
         [] key = "targets" ->
              IF toString(value).ok THEN Upd([task EXCEPT !.Targets = <<value.s>>], NoErr)
              ELSE IF toSlice(value).ok
              THEN Upd([task EXCEPT !.Targets = StringsOf(toSlice(value).e)], NoErr)
              ELSE Upd(task, InvalidTask(key))
         [] key = "filters" ->
              IF toString(value).ok THEN Upd([task EXCEPT !.Filters = <<value.s>>], NoErr)
              ELSE IF toSlice(value).ok
              THEN Upd([task EXCEPT !.Filters = StringsOf(toSlice(value).e)], NoErr)
              ELSE Upd(task, InvalidTask(key))
         [] key = "description" ->
              IF toString(value).ok THEN Upd([task EXCEPT !.Description = value.s], NoErr)
              ELSE Upd(task, InvalidTask(key))
         [] key = "pty" -> flag("Pty")
         [] key = "driver" ->
              IF toString(value).ok THEN Upd([task EXCEPT !.Driver = value.s], NoErr)
              ELSE Upd(task, InvalidTask(key))
         [] key = "parallel" -> flag("Parallel")
         [] key = "privileged" -> flag("Privileged")
         [] key = "disabled" -> flag("Disabled")
         [] key = "hidden" -> flag("Hidden")
         [] key = "script" ->
              LET r == toScript(value)
              IN IF r.err # NoErr THEN Upd(task, r.err)
                 ELSE Upd([task EXCEPT !.Script = r.segs],
                          IF task.File # "" /\ Len(r.segs) > 0 THEN MutexErr ELSE NoErr)
         [] key = "script_file" ->
              IF toString(value).ok
              THEN Upd([task EXCEPT !.File = value.s],
                       IF value.s # "" /\ Len(task.Script) > 0 THEN MutexErr ELSE NoErr)
              ELSE Upd(task, InvalidTask(key))
         [] key = "prefix" ->
              IF toBool(value).ok THEN Upd([task EXCEPT !.UsePrefix = value.b], NoErr)
              ELSE IF toString(value).ok
              THEN Upd([task EXCEPT !.UsePrefix = TRUE, !.Prefix = value.s], NoErr)
              ELSE Upd(task, InvalidTask(key))
         [] key = "prepare" ->
              IF toLFunction(value) THEN Upd([task EXCEPT !.Prepare = value], NoErr)
              ELSE Upd(task, Err("prepare_not_function", "prepare"))
         [] key = "props" ->
              IF toLTable(value)
              THEN LET r == propsFrom(ForEach(value), EmptyMap)
                   IN Upd([task EXCEPT !.Props = r.m], r.err)
              ELSE Upd(task, InvalidTask(key))
         [] key = "args" ->
              IF toSlice(value).ok
              THEN Upd([task EXCEPT !.Args = StringsOf(toSlice(value).e)], NoErr)
              ELSE Upd(task, InvalidTask(key))
         [] OTHER -> Upd(task, Err("unsupported_task_field", key))

\* updateDriver that invokes a callback engine once, when it is assigned, and
\* keeps the string it returned.
updateDriverCaching(d0, key, value) ==
    LET driver == [d0 EXCEPT !.LValues = Put(d0.LValues, key, value)]
    IN CASE key = "engine" ->
              IF toLFunction(value) \/ toString(value).ok
              THEN Upd([driver EXCEPT !.Engine = IF toLFunction(value) /\ toString(value.ret).ok
                                                 THEN value.ret ELSE value], NoErr)
              ELSE Upd(driver, Err("engine_not_function_or_string", "engine"))
         [] OTHER -> Upd(driver, NoErr)
updateDriver(d0, key, value) ==
    LET driver == [d0 EXCEPT !.LValues = Put(d0.LValues, key, value)]
    IN CASE key = "engine" ->
              IF toLFunction(value) \/ toString(value).ok
              THEN Upd([driver EXCEPT !.Engine = value], NoErr)
              ELSE Upd(driver, Err("engine_not_function_or_string", "engine"))
         [] OTHER -> Upd(driver, NoErr)

EngineReturnErr == Err("engine_return_not_string", "")
\* driver.Engine(driver), the closure updateDriver installs: the string, or
\* the callback invoked and its return value taken if it is a string.
Engine(driver) ==
    IF toLFunction(driver.Engine)
    THEN IF toString(driver.Engine.ret).ok
         THEN [s |-> driver.Engine.ret.s, err |-> NoErr, calls |-> 1]
         ELSE [s |-> "", err |-> EngineReturnErr, calls |-> 1]
    ELSE [s |-> driver.Engine.s, err |-> NoErr, calls |-> 0]

DefaultDriverName == "default"
\* The built-in driver, which is in no arena.
DefaultDriver == 0 - 1

\* A Job as NewJob leaves it; Hosts is the index of its host map in hostMaps.
NewJob ==
    [Name |-> "", LValues |-> EmptyMap, Description |-> "", Hidden |-> FALSE,
     Prepare |-> LNil, Hosts |-> 0, Tasks |-> EmptyMap, Drivers |-> EmptyMap]

\* The string-keyed entries of a config table, as setupX takes them.
RECURSIVE ConfigEntries(_)
ConfigEntries(entries) ==
    IF entries = <<>> THEN <<>>
    ELSE (IF toString(Head(entries)[1]).ok
          THEN << <<Head(entries)[1].s, Head(entries)[2]>> >> ELSE <<>>)
         \o ConfigEntries(Tail(entries))

\* ------------------------------------------------------------------ inputs

HostNames == {"web01", "db01"}
TaskNames == {"deploy", "default"}
DriverNames == {"bash", "default"}

\* Entries of a config table for each entity kind.
HostPairs ==
    { <<"HostName", LString("10.0.0.1")>>, <<"User", LNumber(1)>>,
      <<"tags", Array(<<LString("web")>>)>>, <<"description", LBool(TRUE)>>,
      <<"bogus", LString("x")>> }
TaskPairs ==
    { <<"script", LString("echo hi")>>,
      <<"script", Record([k \in {"sudo"} |-> LBool(TRUE)])>>,
      <<"script_file", LString("run.sh")>>, <<"script_file", LString("")>>,
      <<"description", LString("d")>>, <<"bogus", LString("x")>> }
\* Values of the wrong shape for recognized task fields, given one at a time.
TaskShapes ==
    { <<"backend", LNumber(1)>>, <<"targets", Array(<<LString("web"), LNumber(1)>>)>> }
DriverPairs ==
    { <<"engine", LString("bash")>>, <<"engine", LFunction(LString("zsh"))>>,
      <<"engine", LFunction(LNumber(1))>>, <<"engine", LNumber(1)>>, <<"bogus", LString("x")>> }

MaxCalls == 2
JobNames == {"deployment"}
\* hosts, tasks and drivers entries of a job's config table that declare one
\* entity each, with an empty config.
JobMaps ==
    { <<"hosts", Record([n \in {"web01"} |-> Record(EmptyMap)])>>,
      <<"tasks", Record([n \in {"deploy"} |-> Record(EmptyMap)])>>,
      <<"drivers", Record([n \in {"bash"} |-> Record(EmptyMap)])>> }
\* String-keyed entries of a job's config table.
JobPairs ==
    { <<"description", LString("d")>>, <<"hidden", LNumber(1)>>, <<"bogus", LString("x")>>,
      <<"hosts", Record([n \in {"db01"} |->
                    Record([k \in {"tags"} |-> Array(<<LString("db")>>)])])>>,
      <<"hosts", LString("web01")>>,
      <<"tasks", Record([n \in {"deploy"} |->
                    Record([k \in {"script_file"} |-> LString("run.sh")])])>>,
      <<"drivers", Record([n \in {"bash"} |->
                    Record([k \in {"bogus"} |-> LString("x")])])>> }

\* Selectors given to select_hosts and filter.
Selectors ==
    { LString("web"), LString("db01"), LNumber(1),
      Array(<<LString("web"), LNumber(1), LString("db01")>>) }

\* A config table as the sequence of its entries in the order ForEach visits
\* them; that order is not fixed, so every order is an input.  Tables of no,
\* one and two entries.
ConfigsOver(pairs) ==
    {<<>>} \cup { <<p>> : p \in pairs }
           \cup { <<pq[1], pq[2]>> : pq \in { x \in pairs \X pairs : x[1][1] # x[2][1] } }

\* Import names, the values an entrypoint can return, and what a fetch can
\* leave in the cache directory: the module with its index.lua ("ok"), a
\* directory without index.lua ("noindex"), or nothing because it failed.
\* Import names are strings taken character by character: a/m, a:m and a/n.
ModuleNames == { <<"a", "/", "m">>, <<"a", ":", "m">>, <<"a", "/", "n">> }
\* strings.Replace(s, old, new, -1) for one-character old and new.
Replace(s, old, new) == [i \in 1..Len(s) |-> IF s[i] = old THEN new ELSE s[i]]
\* Package.Key: the name with every "/" and ":" turned into "-".
Key(name) == Replace(Replace(name, "/", "-"), ":", "-")
\* The cache directories the import names resolve to.
CacheKeys == { Key(name) : name \in ModuleNames }
ModuleValues == {LString("v1"), Record([k \in {"x"} |-> LNumber(1)])}
FetchOutcomes == {"ok", "noindex", "fail"}
NoValue == [t |-> "none"]

\* ------------------------------------------------------------------- state

VARIABLES
    hostArena, Hosts,       \* every Host ever made; Hosts[name], 0 for nil
    taskArena, Tasks,
    driverArena, Drivers,
    taskMarks,              \* per Task: what has been assigned to script, script_file
    declared,               \* per kind and name: the instances declared, in order
    declares, updates,      \* entities declared and field updates applied so far
    ret,                    \* outcome of the last API call
    flags,                  \* updateFlag, withGlobalFlag, CurrentRegistry.Type
    LoadedModules,          \* CurrentRegistry.LoadedModules: name -> Value
    esshModule,             \* the Lua variable essh.module
    cache,                  \* per cache key: what the cache directory holds
    evalStack,              \* imports whose entrypoint is being evaluated
    fetched, evals,         \* per name: fetches done, evaluations started
    captured,               \* per name: the value its first completed import returned
    imports,                \* import calls made so far
    importRet,              \* outcome of the last import call
    jobArena, Jobs,         \* every Job ever made; Jobs[name], 0 for nil
    hostMaps,               \* the host maps of the jobs: name -> Host, 0 for nil
    given,                  \* the config table of the last job declaration or call
    jobCalls,               \* job declarations and calls made with a config table
    query,                  \* the HostQuery behind the query handle of the script
    asked,                  \* what the script asked of that query, call by call
    queryRet,               \* outcome of the last call on the query handle
    resolved,               \* per engine resolution made: the driver and its Engine then
    invoked,                \* per engine callback invocation made: the driver
    engineRet,              \* outcome of the last engine resolution
    scriptArg,              \* the script value last handed to toScript
    scriptRet,              \* what toScript made of scriptArg
    nests                   \* how many times scriptArg was wrapped

entityVars == <<hostArena, Hosts, taskArena, Tasks, driverArena, Drivers, taskMarks,
                declared, declares, updates, ret>>
importVars == <<flags, LoadedModules, esshModule, cache, evalStack, fetched, evals,
                captured, imports, importRet>>
jobVars == <<jobArena, Jobs, hostMaps, given, jobCalls>>
queryVars == <<query, asked, queryRet>>
\* No script value was handed to toScript yet.
NoScript == [segs |-> <<>>, err |-> Err("no_script_yet", "")]
engineVars == <<resolved, invoked, engineRet>>
scriptVars == <<scriptArg, scriptRet, nests>>
vars == <<entityVars, importVars, jobVars, queryVars, engineVars, scriptVars>>

Kinds == {"host", "task", "driver"}
NamesOf(kind) ==
    CASE kind = "host" -> HostNames [] kind = "task" -> TaskNames [] OTHER -> DriverNames

\* A HostQuery: Datasource is 0 for the global Hosts, else an index of hostMaps.
HostQuery(d, sel, fil) == [Datasource |-> d, Selections |-> sel, Filters |-> fil]
NoQuery == [Datasource |-> 0 - 1, Selections |-> <<>>, Filters |-> <<>>]
\* What the script asked: the job it named (0 for none) and the selectors it
\* gave to select_hosts and, call by call, to filter.
Asked(j, sel, fil) == [job |-> j, sel |-> sel, filters |-> fil]
\* The outcome of one call on the query API: for get, the hosts returned and
\* the names and tags the datasource held when it was evaluated.
QueryRet(op, err, hosts, seen) == [op |-> op, err |-> err, hosts |-> hosts, seen |-> seen]

\* The outcome of one engine resolution: the driver, the string or the error
\* it gave, and the callback invocations it made.
EngineRet(id, s, err, calls) == [id |-> id, s |-> s, err |-> err, calls |-> calls]

\* The outcome of one field update inside a call.
Step(key, value, err, marks) == [key |-> key, value |-> value, err |-> err, marks |-> marks]
NoMarks == [file |-> "", script |-> FALSE]
Ret(op, kind, id, err, steps) ==
    [op |-> op, kind |-> kind, id |-> id, err |-> err, steps |-> steps]

\* The outcome of an import call: the I/O it did (io), how many entrypoint
\* evaluations were under way when it was issued (depth), the value an
\* earlier import of the name returned (prior) and the loaded-module table
\* as it was before the call (table).
ImportRet(op, name, err, value, io, depth, prior, table) ==
    [op |-> op, name |-> name, err |-> err, value |-> value, io |-> io,
     depth |-> depth, prior |-> prior, table |-> table]

Init ==
    /\ hostArena = <<>> /\ Hosts = [n \in HostNames |-> 0]
    /\ taskArena = <<>> /\ Tasks = [n \in TaskNames |-> 0]
    /\ driverArena = <<>> /\ Drivers = [n \in DriverNames |-> 0]
    /\ taskMarks = <<>>
    /\ declared = [k \in Kinds |-> [n \in NamesOf(k) |-> <<>>]]
    /\ declares = 0 /\ updates = 0
    /\ ret = Ret("none", "", 0, NoErr, <<>>)
    /\ flags = [update |-> FALSE, withGlobal |-> FALSE, global |-> FALSE]
    /\ LoadedModules = [n \in ModuleNames |-> NoValue]
    /\ esshModule = LNil
    /\ cache = [k \in CacheKeys |-> "absent"]
    /\ evalStack = <<>>
    /\ fetched = [n \in ModuleNames |-> 0]
    /\ evals = [n \in ModuleNames |-> 0]
    /\ captured = [n \in ModuleNames |-> NoValue]
    /\ imports = 0
    /\ jobArena = <<>> /\ Jobs = [n \in JobNames |-> 0]
    /\ hostMaps = <<>> /\ given = <<>> /\ jobCalls = 0
    /\ query = NoQuery
    /\ asked = Asked(0, LNil, <<>>)
    /\ queryRet = QueryRet("none", NoErr, <<>>, {})
    /\ resolved = <<>> /\ invoked = <<>>
    /\ engineRet = EngineRet(0, "", NoErr, 0)
    /\ scriptArg = LNil /\ scriptRet = NoScript /\ nests = 0
    /\ importRet = ImportRet("none", "", NoErr, NoValue, <<>>, 0, NoValue,
                             [n \in ModuleNames |-> NoValue])

\* ------------------------------------------------------------- registries

\* registerX on (arena, registry): the new instance takes the registered one as
\* its Child, becomes that one's Parent and replaces it in the registry.
register(new, arena, reg, name) ==
    LET id == Len(arena) + 1
        old == reg[name]
        inst == [new EXCEPT !.Name = name, !.Child = old]
        linked == IF old # 0 THEN [arena EXCEPT ![old].Parent = id] ELSE arena
    IN [arena |-> Append(linked, inst), reg |-> [reg EXCEPT ![name] = id], id |-> id]

registerHost(arena, reg, name) == register(NewHost, arena, reg, name)
registerTask(arena, reg, name) == register(NewTask, arena, reg, name)
\* registerDriver that forgets the override link of a redeclared driver.
registerDriverUnlinked(arena, reg, name) ==
    LET r == register(NewDriver, arena, reg, name)
    IN [r EXCEPT !.arena[r.id].Child = 0]
registerDriver(arena, reg, name) == register(NewDriver, arena, reg, name)

\* setupX: the entries of the config table applied in turn; the first error
\* ends the call and leaves what was applied before it.
RECURSIVE setupHost(_, _, _)
setupHost(h, config, steps) ==
    IF config = <<>> THEN [obj |-> h, err |-> NoErr, steps |-> steps]
    ELSE LET u == updateHost(h, Head(config)[1], Head(config)[2])
             st == Append(steps, Step(Head(config)[1], Head(config)[2], u.err, NoMarks))
         IN IF u.err # NoErr THEN [obj |-> u.obj, err |-> u.err, steps |-> st]
            ELSE setupHost(u.obj, Tail(config), st)

RECURSIVE setupDriver(_, _, _)
setupDriver(d, config, steps) ==
    IF config = <<>> THEN [obj |-> d, err |-> NoErr, steps |-> steps]
    ELSE LET u == updateDriver(d, Head(config)[1], Head(config)[2])
             st == Append(steps, Step(Head(config)[1], Head(config)[2], u.err, NoMarks))
         IN IF u.err # NoErr THEN [obj |-> u.obj, err |-> u.err, steps |-> st]
            ELSE setupDriver(u.obj, Tail(config), st)

\* What a script or script_file assignment adds to the marks of a task: the
\* last string given to script_file, and whether a valid script was ever given.
markTask(m, key, value) ==
    CASE key = "script_file" /\ toString(value).ok -> [m EXCEPT !.file = value.s]
      [] key = "script" /\ toScript(value).err = NoErr -> [m EXCEPT !.script = TRUE]
      [] OTHER -> m

RECURSIVE setupTask(_, _, _, _)
setupTask(t, config, steps, m) ==
    IF config = <<>> THEN [obj |-> t, err |-> NoErr, steps |-> steps, marks |-> m]
    ELSE LET key == Head(config)[1]
             value == Head(config)[2]
             u == updateTask(t, key, value)
             st == Append(steps, Step(key, value, u.err, m))
             m2 == markTask(m, key, value)
         IN IF u.err # NoErr THEN [obj |-> u.obj, err |-> u.err, steps |-> st, marks |-> m2]
            ELSE setupTask(u.obj, Tail(config), st, m2)

\* ---------------------------------------------------------------- actions

\* host(name): the one-argument form
esshHost ==
    \E name \in HostNames :
        /\ declares < MaxInst /\ declares' = declares + 1
        /\ LET r == registerHost(hostArena, Hosts, name)
           IN /\ hostArena' = r.arena
              /\ Hosts' = r.reg
              /\ declared' = [declared EXCEPT !["host"][name] = Append(@, r.id)]
              /\ ret' = Ret("declare", "host", r.id, NoErr, <<>>)
        /\ UNCHANGED <<taskArena, Tasks, driverArena, Drivers, taskMarks, updates, importVars, jobVars, queryVars, engineVars, scriptVars>>

\* host(name, config): the two-argument form
esshHostConfig ==
    \E name \in HostNames, config \in ConfigsOver(HostPairs) :
        /\ updates + Len(config) <= MaxUpdates /\ declares < MaxInst /\ declares' = declares + 1
        /\ LET r == registerHost(hostArena, Hosts, name)
               s == setupHost(r.arena[r.id], config, <<>>)
           IN /\ hostArena' = [r.arena EXCEPT ![r.id] = s.obj]
              /\ Hosts' = r.reg
              /\ declared' = [declared EXCEPT !["host"][name] = Append(@, r.id)]
              /\ ret' = Ret("declare", "host", r.id, s.err, s.steps)
              /\ updates' = updates + Len(s.steps)
        /\ UNCHANGED <<taskArena, Tasks, driverArena, Drivers, taskMarks, importVars, jobVars, queryVars, engineVars, scriptVars>>

\* h(config) on a Host handle
hostCall ==
    \E id \in DOMAIN hostArena, config \in ConfigsOver(HostPairs) :
        /\ updates + Len(config) <= MaxUpdates
        /\ LET s == setupHost(hostArena[id], config, <<>>)
           IN /\ hostArena' = [hostArena EXCEPT ![id] = s.obj]
              /\ ret' = Ret("call", "host", id, s.err, s.steps)
              /\ updates' = updates + Len(s.steps)
        /\ UNCHANGED <<declares, Hosts, taskArena, Tasks, driverArena, Drivers, taskMarks, declared, importVars, jobVars, queryVars, engineVars, scriptVars>>

\* h.key = value on a Host handle
hostNewindex ==
    \E id \in DOMAIN hostArena, kv \in HostPairs :
        /\ updates < MaxUpdates
        /\ LET u == updateHost(hostArena[id], kv[1], kv[2])
           IN /\ hostArena' = [hostArena EXCEPT ![id] = u.obj]
              /\ ret' = Ret("newindex", "host", id, u.err,
                            <<Step(kv[1], kv[2], u.err, NoMarks)>>)
        /\ updates' = updates + 1
        /\ UNCHANGED <<declares, Hosts, taskArena, Tasks, driverArena, Drivers, taskMarks, declared, importVars, jobVars, queryVars, engineVars, scriptVars>>

\* task(name): the one-argument form
esshTask ==
    \E name \in TaskNames :
        /\ declares < MaxInst /\ declares' = declares + 1
        /\ LET r == registerTask(taskArena, Tasks, name)
           IN /\ taskArena' = r.arena
              /\ Tasks' = r.reg
              /\ taskMarks' = Append(taskMarks, NoMarks)
              /\ declared' = [declared EXCEPT !["task"][name] = Append(@, r.id)]
              /\ ret' = Ret("declare", "task", r.id, NoErr, <<>>)
        /\ UNCHANGED <<hostArena, Hosts, driverArena, Drivers, updates, importVars, jobVars, queryVars, engineVars, scriptVars>>

\* task(name, config), and task(config), which declares DefaultTaskName
esshTaskConfig ==
    \E name \in TaskNames, config \in ConfigsOver(TaskPairs) :
        /\ updates + Len(config) <= MaxUpdates /\ declares < MaxInst /\ declares' = declares + 1
        /\ LET r == registerTask(taskArena, Tasks, name)
               s == setupTask(r.arena[r.id], config, <<>>, NoMarks)
           IN /\ taskArena' = [r.arena EXCEPT ![r.id] = s.obj]
              /\ Tasks' = r.reg
              /\ taskMarks' = Append(taskMarks, s.marks)
              /\ declared' = [declared EXCEPT !["task"][name] = Append(@, r.id)]
              /\ ret' = Ret("declare", "task", r.id, s.err, s.steps)
              /\ updates' = updates + Len(s.steps)
        /\ UNCHANGED <<hostArena, Hosts, driverArena, Drivers, importVars, jobVars, queryVars, engineVars, scriptVars>>

\* t(config) on a Task handle
taskCall ==
    \E id \in DOMAIN taskArena, config \in ConfigsOver(TaskPairs) :
        /\ updates + Len(config) <= MaxUpdates
        /\ LET s == setupTask(taskArena[id], config, <<>>, taskMarks[id])
           IN /\ taskArena' = [taskArena EXCEPT ![id] = s.obj]
              /\ taskMarks' = [taskMarks EXCEPT ![id] = s.marks]
              /\ ret' = Ret("call", "task", id, s.err, s.steps)
              /\ updates' = updates + Len(s.steps)
        /\ UNCHANGED <<declares, hostArena, Hosts, Tasks, driverArena, Drivers, declared, importVars, jobVars, queryVars, engineVars, scriptVars>>

\* t.key = value on a Task handle
taskNewindex ==
    \E id \in DOMAIN taskArena, kv \in TaskPairs \cup TaskShapes :
        /\ updates < MaxUpdates
        /\ LET u == updateTask(taskArena[id], kv[1], kv[2])
           IN /\ taskArena' = [taskArena EXCEPT ![id] = u.obj]
              /\ taskMarks' = [taskMarks EXCEPT ![id] = markTask(@, kv[1], kv[2])]
              /\ ret' = Ret("newindex", "task", id, u.err,
                            <<Step(kv[1], kv[2], u.err, taskMarks[id])>>)
        /\ updates' = updates + 1
        /\ UNCHANGED <<declares, hostArena, Hosts, Tasks, driverArena, Drivers, declared, importVars, jobVars, queryVars, engineVars, scriptVars>>

\* driver(name): the one-argument form
esshDriver ==
    \E name \in DriverNames :
        /\ declares < MaxInst /\ declares' = declares + 1
        /\ LET r == registerDriver(driverArena, Drivers, name)
           IN /\ driverArena' = r.arena
              /\ Drivers' = r.reg
              /\ declared' = [declared EXCEPT !["driver"][name] = Append(@, r.id)]
              /\ ret' = Ret("declare", "driver", r.id, NoErr, <<>>)
        /\ UNCHANGED <<hostArena, Hosts, taskArena, Tasks, taskMarks, updates, importVars, jobVars, queryVars, engineVars, scriptVars>>

\* driver(name, config), and driver(config), which declares DefaultDriverName
esshDriverConfig ==
    \E name \in DriverNames, config \in ConfigsOver(DriverPairs) :
        /\ updates + Len(config) <= MaxUpdates /\ declares < MaxInst /\ declares' = declares + 1
        /\ LET r == registerDriver(driverArena, Drivers, name)
               s == setupDriver(r.arena[r.id], config, <<>>)
           IN /\ driverArena' = [r.arena EXCEPT ![r.id] = s.obj]
              /\ Drivers' = r.reg
              /\ declared' = [declared EXCEPT !["driver"][name] = Append(@, r.id)]
              /\ ret' = Ret("declare", "driver", r.id, s.err, s.steps)
              /\ updates' = updates + Len(s.steps)
        /\ UNCHANGED <<hostArena, Hosts, taskArena, Tasks, taskMarks, importVars, jobVars, queryVars, engineVars, scriptVars>>

\* d(config) on a Driver handle
driverCall ==
    \E id \in DOMAIN driverArena, config \in ConfigsOver(DriverPairs) :
        /\ updates + Len(config) <= MaxUpdates
        /\ LET s == setupDriver(driverArena[id], config, <<>>)
           IN /\ driverArena' = [driverArena EXCEPT ![id] = s.obj]
              /\ ret' = Ret("call", "driver", id, s.err, s.steps)
              /\ updates' = updates + Len(s.steps)
        /\ UNCHANGED <<declares, hostArena, Hosts, taskArena, Tasks, Drivers, taskMarks, declared, importVars, jobVars, queryVars, engineVars, scriptVars>>

\* d.key = value on a Driver handle
driverNewindex ==
    \E id \in DOMAIN driverArena, kv \in DriverPairs :
        /\ updates < MaxUpdates
        /\ LET u == updateDriver(driverArena[id], kv[1], kv[2])
           IN /\ driverArena' = [driverArena EXCEPT ![id] = u.obj]
              /\ ret' = Ret("newindex", "driver", id, u.err,
                            <<Step(kv[1], kv[2], u.err, NoMarks)>>)
        /\ updates' = updates + 1
        /\ UNCHANGED <<declares, Hosts, hostArena, taskArena, Tasks, Drivers, taskMarks, declared, importVars, jobVars, queryVars, engineVars, scriptVars>>

\* driver.Engine(driver), called by whatever runs a task with the driver
driverEngine ==
    \E id \in DOMAIN driverArena :
        LET r == Engine(driverArena[id])
        IN /\ driverArena[id].Engine # LNil /\ Len(resolved) < MaxResolves
           /\ resolved' = Append(resolved, <<id, driverArena[id].Engine>>)
           /\ invoked' = invoked \o [i \in 1..r.calls |-> id]
           /\ engineRet' = EngineRet(id, r.s, r.err, r.calls)
           /\ UNCHANGED <<entityVars, importVars, jobVars, queryVars, scriptVars>>

\* ------------------------------------------------------------- script values

MaxNest == 3
\* Script values that are no arrays: strings, records with and without "code",
\* a record whose "code" is a bool, and a number.
ScriptLeaves ==
    { LString("a"), LString("b"),
      Record([k \in {"code", "sudo"} |-> IF k = "code" THEN LString("c") ELSE LBool(TRUE)]),
      Record([k \in {"code"} |-> LBool(FALSE)]),
      Record([k \in {"sudo"} |-> LBool(TRUE)]),
      LNumber(1) }

\* toScript on an array of the last script value and one more element, the
\* new element before or after it.
scriptOfList ==
    \E leaf \in ScriptLeaves, front \in BOOLEAN :
        \E value \in { Array(IF front THEN <<leaf, scriptArg>> ELSE <<scriptArg, leaf>>) } :
            /\ nests < MaxNest
            /\ scriptArg' = value
            /\ scriptRet' = toScript(value)
            /\ nests' = nests + 1
            /\ UNCHANGED <<entityVars, importVars, jobVars, queryVars, engineVars>>

\* toScript on a callable that returns the last script value.
scriptOfCallable ==
    /\ nests < MaxNest /\ ~toLFunction(scriptArg)
    /\ scriptArg' = LFunction(scriptArg)
    /\ scriptRet' = toScript(LFunction(scriptArg))
    /\ nests' = nests + 1
    /\ UNCHANGED <<entityVars, importVars, jobVars, queryVars, engineVars>>

\* ------------------------------------------------------------- importing

NestedErr == Err("nested_module_importing", "")
FetchErr == Err("module_load", "")
InvalidModuleErr == Err("invalid_module", "")
EvalErr == Err("entrypoint", "")

\* The command line and the registry in use, set when the process starts.
parseFlags ==
    \E u, w, g \in BOOLEAN :
        /\ imports = 0 /\ flags = [update |-> FALSE, withGlobal |-> FALSE, global |-> FALSE]
        /\ flags' = [update |-> u, withGlobal |-> w, global |-> g]
        /\ flags' # flags
        /\ UNCHANGED <<entityVars, jobVars, queryVars, engineVars, scriptVars, LoadedModules, esshModule, cache, evalStack, fetched,
                       evals, captured, imports, importRet>>

\* An earlier run has left a module in the cache directory.
cacheLeftBehind ==
    \E name \in ModuleNames, what \in {"ok", "noindex"} :
        /\ imports = 0 /\ cache[Key(name)] = "absent"
        /\ cache' = [cache EXCEPT ![Key(name)] = what]
        /\ UNCHANGED <<entityVars, jobVars, queryVars, engineVars, scriptVars, flags, LoadedModules, esshModule, evalStack, fetched,
                       evals, captured, imports, importRet>>

\* The guard against nested imports that never finds the marker set.
nestedImportUnguarded(mod) == FALSE
\* The guard against nested imports: essh.module is not nil.
nestedImport(mod) == mod # LNil

\* Package.Load: what the cache directory holds afterwards, the I/O done and
\* the error; outcome is what client.Get does if it is called.
Load(dir, update, outcome) ==
    IF ~update /\ dir # "absent"
    THEN [dir |-> dir, io |-> <<"stat_dir">>, err |-> NoErr, got |-> FALSE]
    ELSE LET io == <<"stat_dir", "fetch">>
         IN IF outcome = "fail"
            THEN [dir |-> dir, io |-> io, err |-> FetchErr, got |-> FALSE]
            ELSE [dir |-> outcome, io |-> io, err |-> NoErr, got |-> TRUE]

\* import(name) up to the point where it returns, raises, or starts to
\* evaluate the entrypoint.
esshImport ==
    \E name \in ModuleNames, outcome \in FetchOutcomes :
        LET done(err, value, io) ==
                ImportRet("import", name, err, value, io, Len(evalStack),
                          captured[name], LoadedModules)
            update == flags.update /\ ~(flags.global /\ ~flags.withGlobal)
            l == Load(cache[Key(name)], update, outcome)
        IN /\ imports < MaxImports
           /\ imports' = imports + 1
           /\ UNCHANGED <<entityVars, jobVars, queryVars, engineVars, scriptVars, flags, captured>>
           /\ IF nestedImport(esshModule)
              THEN /\ importRet' = done(NestedErr, NoValue, <<>>)
                   /\ UNCHANGED <<LoadedModules, esshModule, cache, evalStack, fetched, evals>>
              ELSE IF LoadedModules[name] # NoValue
              THEN /\ outcome = "ok"
                   /\ importRet' = done(NoErr, LoadedModules[name], <<>>)
                   /\ UNCHANGED <<LoadedModules, esshModule, cache, evalStack, fetched, evals>>
              ELSE /\ (l.io = <<"stat_dir">> => outcome = "ok")
                   /\ cache' = [cache EXCEPT ![Key(name)] = l.dir]
                   /\ fetched' = [fetched EXCEPT ![name] = @ + (IF l.got THEN 1 ELSE 0)]
                   /\ UNCHANGED LoadedModules
                   /\ IF l.err # NoErr
                      THEN /\ importRet' = done(l.err, NoValue, l.io)
                           /\ UNCHANGED <<esshModule, evalStack, evals>>
                      ELSE IF l.dir # "ok"
                      THEN /\ importRet' = done(InvalidModuleErr, NoValue,
                                                Append(l.io, "stat_index"))
                           /\ UNCHANGED <<esshModule, evalStack, evals>>
                      ELSE /\ esshModule' = Record([k \in {"import_path"} |-> LString(name)])
                           /\ evalStack' = Append(evalStack, name)
                           /\ evals' = [evals EXCEPT ![name] = @ + 1]
                           /\ importRet' = done(NoErr, NoValue,
                                                l.io \o <<"stat_index", "eval">>)

\* The entrypoint returns: the marker is cleared, the value kept and the
\* module registered; import returns the value.
importReturn ==
    \E value \in ModuleValues :
        /\ evalStack # <<>>
        /\ LET name == evalStack[Len(evalStack)]
           IN /\ esshModule' = LNil
              /\ LoadedModules' = [LoadedModules EXCEPT ![name] = value]
              /\ captured' = [captured EXCEPT ![name] = IF @ = NoValue THEN value ELSE @]
              /\ importRet' = [importRet EXCEPT !.op = "returned", !.name = name,
                                                !.value = value, !.err = NoErr]
        /\ evalStack' = SubSeq(evalStack, 1, Len(evalStack) - 1)
        /\ UNCHANGED <<entityVars, jobVars, queryVars, engineVars, scriptVars, flags, cache, fetched, evals, imports>>

\* The entrypoint raises an error: import panics with it.
importPanic ==
    /\ evalStack # <<>>
    /\ importRet' = [importRet EXCEPT !.op = "panicked", !.name = evalStack[Len(evalStack)],
                                      !.err = EvalErr, !.value = NoValue]
    /\ evalStack' = SubSeq(evalStack, 1, Len(evalStack) - 1)
    /\ UNCHANGED <<entityVars, jobVars, queryVars, engineVars, scriptVars, flags, LoadedModules, esshModule, cache, fetched, evals,
                   captured, imports>>

\* -------------------------------------------------------------------- jobs

\* Everything a job declaration can change, as one value; d and n count the
\* entities declared and the field updates applied on the way.
World ==
    [hostArena |-> hostArena, Hosts |-> Hosts, taskArena |-> taskArena, Tasks |-> Tasks,
     driverArena |-> driverArena, Drivers |-> Drivers, taskMarks |-> taskMarks,
     declared |-> declared, jobArena |-> jobArena, hostMaps |-> hostMaps, Jobs |-> Jobs,
     d |-> 0, n |-> 0]

Commit(w) ==
    /\ hostArena' = w.hostArena /\ Hosts' = w.Hosts
    /\ taskArena' = w.taskArena /\ Tasks' = w.Tasks
    /\ driverArena' = w.driverArena /\ Drivers' = w.Drivers
    /\ taskMarks' = w.taskMarks /\ declared' = w.declared
    /\ jobArena' = w.jobArena /\ hostMaps' = w.hostMaps /\ Jobs' = w.Jobs
    /\ declares' = declares + w.d /\ updates' = updates + w.n

Fits(w) ==
    /\ updates + w.n <= MaxUpdates
    /\ declares + w.d <= MaxInst

ArenaField(kind) ==
    CASE kind = "host" -> "hostArena" [] kind = "task" -> "taskArena" [] OTHER -> "driverArena"
RegistryField(kind) ==
    CASE kind = "host" -> "Hosts" [] kind = "task" -> "Tasks" [] OTHER -> "Drivers"

\* registerJob: a new Job replaces the one registered under the name.
registerJob(w, name) ==
    LET id == Len(w.jobArena) + 1
        j == [NewJob EXCEPT !.Name = name, !.Hosts = Len(w.hostMaps) + 1]
    IN [w |-> [w EXCEPT !.jobArena = Append(@, j), !.hostMaps = Append(@, EmptyMap),
                        !.Jobs[name] = id, !.d = @ + 1],
        id |-> id]

\* job.RegisterHost, job.RegisterTask, job.RegisterDriver
jobRegister(w, jid, kind, id) ==
    LET name == w[ArenaField(kind)][id].Name
    IN CASE kind = "host" ->
              [w EXCEPT !.hostMaps[w.jobArena[jid].Hosts] = Put(@, name, id)]
         [] kind = "task" -> [w EXCEPT !.jobArena[jid].Tasks = Put(@, name, id)]
         [] OTHER -> [w EXCEPT !.jobArena[jid].Drivers = Put(@, name, id)]

\* registerX that makes the entity and leaves the global registry as it is.
registerEntityUnlisted(kind, arena, reg, name) ==
    LET r == CASE kind = "host" -> registerHost(arena, reg, name)
               [] kind = "task" -> registerTask(arena, reg, name)
               [] OTHER -> registerDriver(arena, reg, name)
    IN [r EXCEPT !.reg = reg]
registerEntity(kind, arena, reg, name) ==
    CASE kind = "host" -> registerHost(arena, reg, name)
      [] kind = "task" -> registerTask(arena, reg, name)
      [] OTHER -> registerDriver(arena, reg, name)

setupEntity(kind, obj, config) ==
    CASE kind = "host" ->
            LET r == setupHost(obj, config, <<>>)
            IN [obj |-> r.obj, err |-> r.err, steps |-> r.steps, marks |-> NoMarks]
      [] kind = "task" -> setupTask(obj, config, <<>>, NoMarks)
      [] OTHER ->
            LET r == setupDriver(obj, config, <<>>)
            IN [obj |-> r.obj, err |-> r.err, steps |-> r.steps, marks |-> NoMarks]

\* The entries of a hosts, tasks or drivers map of a job: each one registered
\* in the global registry, set up from its config and attached to the job.
RECURSIVE jobMap(_, _, _, _)
jobMap(kind, w, jid, entries) ==
    IF entries = <<>> THEN [w |-> w, err |-> NoErr]
    ELSE LET k == Head(entries)[1]
             v == Head(entries)[2]
         IN IF ~toString(k).ok THEN [w |-> w, err |-> Err("expected_name", "")]
            ELSE IF ~toLTable(v) THEN [w |-> w, err |-> Err("expected_config", "")]
            ELSE LET attach(r, s, w1) ==
                         IF s.err # NoErr THEN [w |-> w1, err |-> s.err]
                         ELSE With(jobRegister(w1, jid, kind, r.id),
                                   LAMBDA w2 : jobMap(kind, w2, jid, Tail(entries)))
                     declare(r, s) ==
                         With([w EXCEPT ![ArenaField(kind)] = [r.arena EXCEPT ![r.id] = s.obj],
                                        ![RegistryField(kind)] = r.reg,
                                        !.declared[kind][k.s] = Append(@, r.id),
                                        !.taskMarks = IF kind = "task" THEN Append(@, s.marks)
                                                      ELSE @,
                                        !.d = @ + 1, !.n = @ + Len(s.steps)],
                              LAMBDA w1 : attach(r, s, w1))
                     setup(r) ==
                         With(setupEntity(kind, r.arena[r.id], ConfigEntries(ForEach(v))),
                              LAMBDA s : declare(r, s))
                 IN With(registerEntity(kind, w[ArenaField(kind)], w[RegistryField(kind)], k.s),
                         setup)

InvalidJob(key) == Err("invalid_job_value", key)

\* A sub-registry that is left as it is when a map is applied.
keptSubRegistry(w, jid, kind) == w
\* The sub-registry of one kind made anew before a map is applied: empty for
\* hosts and tasks, holding the built-in default driver for drivers.
newSubRegistry(w, jid, kind) ==
    CASE kind = "host" ->
            [w EXCEPT !.hostMaps = Append(@, EmptyMap),
                      !.jobArena[jid].Hosts = Len(w.hostMaps) + 1]
      [] kind = "task" -> [w EXCEPT !.jobArena[jid].Tasks = EmptyMap]
      [] OTHER ->
            [w EXCEPT !.jobArena[jid].Drivers = [n \in {DefaultDriverName} |-> DefaultDriver]]

updateJob(w0, jid, key, value) ==
    LET w == [w0 EXCEPT !.jobArena[jid].LValues = Put(@, key, value), !.n = @ + 1]
        ok(j) == [w |-> [w EXCEPT !.jobArena[jid] = j], err |-> NoErr]
        job == w.jobArena[jid]
    IN CASE key = "description" ->
              IF toString(value).ok THEN ok([job EXCEPT !.Description = value.s])
              ELSE [w |-> w, err |-> InvalidJob(key)]
         [] key = "hidden" ->
              IF toBool(value).ok THEN ok([job EXCEPT !.Hidden = value.b])
              ELSE [w |-> w, err |-> InvalidJob(key)]
         [] key = "prepare" ->
              IF toLFunction(value) THEN ok([job EXCEPT !.Prepare = value])
              ELSE [w |-> w, err |-> Err("prepare_not_function", "prepare")]
         [] key = "hosts" ->
              IF toLTable(value)
              THEN jobMap("host", newSubRegistry(w, jid, "host"), jid, ForEach(value))
              ELSE [w |-> w, err |-> Err("expected_table", "")]
         [] key = "tasks" ->
              IF toLTable(value)
              THEN jobMap("task", newSubRegistry(w, jid, "task"), jid, ForEach(value))
              ELSE [w |-> w, err |-> Err("expected_table", "")]
         [] key = "drivers" ->
              IF toLTable(value)
              THEN jobMap("driver", newSubRegistry(w, jid, "driver"), jid, ForEach(value))
              ELSE [w |-> w, err |-> Err("expected_table", "")]
         [] OTHER -> [w |-> w, err |-> Err("unsupported_job_field", key)]

\* First pass of setupJob: the string-keyed entries, through updateJob.
RECURSIVE setupJobFields(_, _, _, _)
setupJobFields(w, jid, rec, steps) ==
    IF rec = <<>> THEN [w |-> w, err |-> NoErr, steps |-> steps]
    ELSE LET next(u) ==
                 LET st == Append(steps, Step(Head(rec)[1], Head(rec)[2], u.err, NoMarks))
                 IN IF u.err # NoErr THEN [w |-> u.w, err |-> u.err, steps |-> st]
                    ELSE setupJobFields(u.w, jid, Tail(rec), st)
         IN With(updateJob(w, jid, Head(rec)[1], Head(rec)[2]), next)

SubTable(kind) ==
    CASE kind = "host" -> "hosts" [] kind = "task" -> "tasks" [] OTHER -> "drivers"

\* Second pass of setupJob: the entries again, the string-keyed ones passed
\* over, each positional one a Host, Task or Driver handle that is mirrored
\* into the job's LValues and attached to the job.
RECURSIVE setupJobHandles(_, _, _)
setupJobHandles(w, jid, entries) ==
    IF entries = <<>> THEN [w |-> w, err |-> NoErr]
    ELSE LET k == Head(entries)[1]
             v == Head(entries)[2]
         IN IF toString(k).ok THEN setupJobHandles(w, jid, Tail(entries))
            ELSE IF ~toFloat64(k) THEN [w |-> w, err |-> Err("invalid_operation", "")]
            ELSE IF v.t # "userdata" THEN [w |-> w, err |-> Err("expected_userdata", "")]
            ELSE IF v.kind \notin Kinds THEN [w |-> w, err |-> Err("expected_resource", "")]
            ELSE LET sub == SubTable(v.kind)
                     lv == w.jobArena[jid].LValues
                     tb == IF sub \in DOMAIN lv THEN lv[sub] ELSE Record(EmptyMap)
                     resource == w[ArenaField(v.kind)][v.id]
                     tb2 == [tb EXCEPT !.rec = Put(@, resource.Name, Record(resource.LValues))]
                 IN IF ~toLTable(tb) THEN [w |-> w, err |-> Err("broken_table", sub)]
                    ELSE With(jobRegister([w EXCEPT !.jobArena[jid].LValues = Put(@, sub, tb2)],
                                          jid, v.kind, v.id),
                              LAMBDA w2 : setupJobHandles(w2, jid, Tail(entries)))

\* setupJob that attaches the positional entries first and applies the
\* string-keyed entries after them.
setupJobHandlesFirst(w, jid, entries) ==
    LET fields(h) ==
            IF h.err # NoErr THEN [w |-> h.w, err |-> h.err, steps |-> <<>>]
            ELSE setupJobFields(h.w, jid, ConfigEntries(entries), <<>>)
    IN With(setupJobHandles(w, jid, entries), fields)
\* setupJob on a config table given as its entries in the order ForEach visits
\* them: the string-keyed entries first, then the positional ones.
setupJob(w, jid, entries) ==
    LET handles(f) ==
            IF f.err # NoErr THEN f
            ELSE With(setupJobHandles(f.w, jid, entries),
                      LAMBDA h : [w |-> h.w, err |-> h.err, steps |-> f.steps])
    IN With(setupJobFields(w, jid, ConfigEntries(entries), <<>>), handles)

\* The handles a script can hold, and the positional parts of a job config.
Handles ==
    { LUserData("host", i) : i \in DOMAIN hostArena }
        \cup { LUserData("task", i) : i \in DOMAIN taskArena }
        \cup { LUserData("driver", i) : i \in DOMAIN driverArena }
        \cup { LUserData("job", i) : i \in DOMAIN jobArena }
\* Config tables of a job, each as its entries in the order ForEach visits
\* them: string-keyed entries, positional entries (handles, and a string that
\* is no handle), and both kinds together in either order.
JobConfigs ==
    LET named == { <<LString(p[1]), p[2]>> : p \in JobMaps \cup {<<"description", LString("d")>>} }
        positional == { <<LNumber(1), u>> : u \in Handles \cup {LString("web01")} }
    IN { <<e>> : e \in named \cup positional }
           \cup { <<a, b>> : a \in named, b \in positional }
           \cup { <<b, a>> : a \in named, b \in positional }

\* job(name): the one-argument form
esshJob ==
    \E name \in JobNames :
        /\ \E r \in {registerJob(World, name)} :
              /\ Fits(r.w)
              /\ Commit(r.w)
              /\ ret' = Ret("declare", "job", r.id, NoErr, <<>>)
              /\ given' = <<>> /\ UNCHANGED jobCalls
        /\ UNCHANGED <<importVars, queryVars, engineVars, scriptVars>>

\* job(name, config), and job(config), which declares DefaultJobName
esshJobConfig ==
    /\ jobCalls < MaxCalls
    /\ \E name \in JobNames, config \in JobConfigs :
        \E r \in {registerJob(World, name)} : \E s \in {setupJob(r.w, r.id, config)} :
           /\ Fits(s.w)
           /\ Commit(s.w)
           /\ ret' = Ret("declare", "job", r.id, s.err, s.steps)
           /\ given' = config
           /\ jobCalls' = jobCalls + 1
           /\ UNCHANGED <<importVars, queryVars, engineVars, scriptVars>>

\* j(config) on a Job handle
jobCall ==
    /\ jobCalls < MaxCalls
    /\ \E id \in DOMAIN jobArena, config \in JobConfigs :
        \E s \in {setupJob(World, id, config)} :
           /\ Fits(s.w)
           /\ Commit(s.w)
           /\ ret' = Ret("call", "job", id, s.err, s.steps)
           /\ given' = config
           /\ jobCalls' = jobCalls + 1
           /\ UNCHANGED <<importVars, queryVars, engineVars, scriptVars>>

\* j.key = value on a Job handle
jobNewindex ==
    \E id \in DOMAIN jobArena, kv \in JobPairs :
        \E u \in {updateJob(World, id, kv[1], kv[2])} :
           /\ Fits(u.w)
           /\ Commit(u.w)
           /\ ret' = Ret("newindex", "job", id, u.err, <<Step(kv[1], kv[2], u.err, NoMarks)>>)
           /\ given' = <<>> /\ UNCHANGED jobCalls
           /\ UNCHANGED <<importVars, queryVars, engineVars, scriptVars>>

\* ----------------------------------------------------------------- queries

\* The elements of a set of numbers, smallest first.
RECURSIVE Ascending(_)
Ascending(S) ==
    IF S = {} THEN <<>>
    ELSE LET m == CHOOSE x \in S : \A y \in S : x <= y IN <<m>> \o Ascending(S \ {m})

SeqToSet(q) == { q[i] : i \in DOMAIN q }

\* A match expression succeeds on a host if it is its name or one of its tags.
Matches(expr, h) == expr = h.Name \/ expr \in SeqToSet(h.Tags)

\* The hosts in a datasource: the global registry, or the host map of a job.
DatasourceHosts(d) ==
    LET m == IF d = 0 THEN Hosts ELSE hostMaps[d]
    IN { m[n] : n \in DOMAIN m } \ {0}

\* What a datasource holds: each host with its name and tags.
Seen(d) == { <<id, hostArena[id].Name, hostArena[id].Tags>> : id \in DatasourceHosts(d) }

\* HostQuery.GetHosts: the hosts of the datasource in declaration order that
\* match a selection (any host when there is none) and every filter.
GetHosts(hq) ==
    LET keep(id) ==
            /\ \/ hq.Selections = <<>>
               \/ \E i \in DOMAIN hq.Selections : Matches(hq.Selections[i], hostArena[id])
            /\ \A i \in DOMAIN hq.Filters : Matches(hq.Filters[i], hostArena[id])
    IN Ascending({ id \in DatasourceHosts(hq.Datasource) : keep(id) })

AppendSelections(hq, sel) == [hq EXCEPT !.Selections = @ \o sel]
AppendFilters(hq, fil) == [hq EXCEPT !.Filters = @ \o fil]
SetDatasource(hq, d) == [hq EXCEPT !.Datasource = d]
NewHostQuery == HostQuery(0, <<>>, <<>>)

\* A selector argument: a string, or an array table whose strings are taken.
selectorStrings(value) ==
    IF toString(value).ok THEN [ok |-> TRUE, e |-> <<value.s>>]
    ELSE IF toSlice(value).ok THEN [ok |-> TRUE, e |-> StringsOf(toSlice(value).e)]
    ELSE [ok |-> FALSE, e |-> <<>>]

Arg(args, i) == IF i \in DOMAIN args THEN args[i] ELSE LNil

\* select_hosts(...): the query it builds, or the error it ends with.
selectHosts(args) ==
    LET first == Arg(args, 1)
        isJob == first.t = "userdata" /\ first.kind = "job"
        jobHosts == jobArena[first.id].Hosts
        fail(k) == [q |-> NoQuery, err |-> Err(k, "")]
    IN IF Len(args) > 2 THEN fail("max_2_arguments")
       ELSE IF first.t = "userdata" /\ ~isJob THEN fail("expected_job")
       ELSE IF Len(args) = 1
       THEN IF ~isJob
            THEN LET sel == selectorStrings(first)
                 IN IF sel.ok THEN [q |-> AppendSelections(NewHostQuery, sel.e), err |-> NoErr]
                    ELSE fail("expected_string_or_array")
            ELSE [q |-> SetDatasource(NewHostQuery, jobHosts), err |-> NoErr]
       ELSE IF Len(args) = 2
       THEN IF isJob
            THEN LET sel == selectorStrings(Arg(args, 2))
                 IN IF sel.ok
                    THEN [q |-> AppendSelections(SetDatasource(NewHostQuery, jobHosts), sel.e),
                          err |-> NoErr]
                    ELSE fail("expected_string_or_array")
            ELSE fail("expected_job")
       ELSE [q |-> NewHostQuery, err |-> NoErr]

\* The function behind q:filter(...) that keeps the filters of the last call only.
queryFilterReplacing(hq, args) ==
    IF Len(args) # 1 THEN [q |-> hq, err |-> Err("filter_arguments", "")]
    ELSE LET fil == selectorStrings(args[1])
         IN IF fil.ok THEN [q |-> [hq EXCEPT !.Filters = fil.e], err |-> NoErr]
            ELSE [q |-> hq, err |-> Err("expected_string_or_array", "")]
\* The function behind q:filter(...), on the arguments after the handle.
queryFilter(hq, args) ==
    IF Len(args) # 1 THEN [q |-> hq, err |-> Err("filter_arguments", "")]
    ELSE LET fil == selectorStrings(args[1])
         IN IF fil.ok THEN [q |-> AppendFilters(hq, fil.e), err |-> NoErr]
            ELSE [q |-> hq, err |-> Err("expected_string_or_array", "")]

\* The function behind q:get() that builds the table back to front.
queryGetReversed(hq) == Reverse(GetHosts(hq))
\* The function behind q:get(): the hosts of GetHosts appended in turn.
queryGet(hq) == GetHosts(hq)

\* The function behind q:first(), had the handle given it out.
queryFirst(hq) == IF Len(GetHosts(hq)) > 0 THEN <<GetHosts(hq)[1]>> ELSE <<>>

GoFunction(f) == [t |-> "gofunction", f |-> f]
\* hostQueryIndex: what indexing a query handle gives.  For "first" the
\* function is pushed, then nil, and the one value returned is the nil.
hostQueryIndex(index) ==
    CASE index = "filter" -> GoFunction("filter")
      [] index = "get" -> GoFunction("get")
      [] index = "first" -> LNil
      [] OTHER -> LNil

CallNilErr == Err("attempt_to_call_nil", "")

\* select_hosts(...)
esshSelectHosts ==
    \E args \in {<<>>} \cup { <<a>> : a \in Selectors \cup Handles }
                 \cup { <<a, b>> : a \in Handles \cup {LString("web")}, b \in Selectors }
                 \cup { <<LString("web"), LString("db01"), LString("web01")>> } :
        LET r == selectHosts(args)
        IN /\ query = NoQuery
           /\ IF r.err = NoErr
              THEN /\ query' = r.q
                   /\ asked' = Asked(IF Arg(args, 1).t = "userdata" THEN Arg(args, 1).id ELSE 0,
                                     IF Arg(args, 1).t = "userdata" THEN Arg(args, 2)
                                     ELSE Arg(args, 1),
                                     <<>>)
              ELSE UNCHANGED <<query, asked>>
           /\ queryRet' = QueryRet("select_hosts", r.err, <<>>, {})
           /\ UNCHANGED <<entityVars, importVars, jobVars, engineVars, scriptVars>>

\* q:filter(...)
hostQueryFilter ==
    \E args \in {<<>>} \cup { <<a>> : a \in Selectors } :
        LET fn == hostQueryIndex("filter")
            r == queryFilter(query, args)
        IN /\ query # NoQuery /\ Len(asked.filters) < MaxFilters
           /\ IF fn = LNil
              THEN /\ queryRet' = QueryRet("filter", CallNilErr, <<>>, {})
                   /\ UNCHANGED <<query, asked>>
              ELSE /\ query' = r.q
                   /\ asked' = IF r.err = NoErr
                               THEN [asked EXCEPT !.filters = Append(@, args[1])] ELSE asked
                   /\ queryRet' = QueryRet("filter", r.err, <<>>, {})
           /\ UNCHANGED <<entityVars, importVars, jobVars, engineVars, scriptVars>>

\* q:get()
hostQueryGet ==
    LET fn == hostQueryIndex("get")
    IN /\ query # NoQuery
       /\ queryRet' = IF fn = LNil THEN QueryRet("get", CallNilErr, <<>>, {})
                      ELSE QueryRet("get", NoErr, queryGet(query), Seen(query.Datasource))
       /\ UNCHANGED <<entityVars, importVars, jobVars, engineVars, scriptVars, query, asked>>

\* q:first()
hostQueryFirst ==
    LET fn == hostQueryIndex("first")
    IN /\ query # NoQuery
       /\ queryRet' = IF fn = LNil THEN QueryRet("first", CallNilErr, <<>>, {})
                      ELSE QueryRet("first", NoErr, queryFirst(query), {})
       /\ UNCHANGED <<entityVars, importVars, jobVars, engineVars, scriptVars, query, asked>>

\* --------------------------------------------------------- specifications

\* Declarations of hosts, tasks and drivers.
NextRegistry ==
    \/ esshHost \/ esshHostConfig
    \/ esshTask \/ esshTaskConfig
    \/ esshDriver \/ esshDriverConfig
SpecRegistry == Init /\ [][NextRegistry]_vars

\* Drivers: declarations, field updates and engine resolutions.
NextDriver == esshDriver \/ esshDriverConfig \/ driverNewindex \/ driverEngine
SpecDriver == Init /\ [][NextDriver]_vars

\* Script values only: toScript on ever deeper values.
InitScript ==
    \E value \in ScriptLeaves :
        /\ hostArena = <<>> /\ Hosts = [n \in HostNames |-> 0]
        /\ taskArena = <<>> /\ Tasks = [n \in TaskNames |-> 0]
        /\ driverArena = <<>> /\ Drivers = [n \in DriverNames |-> 0]
        /\ taskMarks = <<>>
        /\ declared = [k \in Kinds |-> [n \in NamesOf(k) |-> <<>>]]
        /\ declares = 0 /\ updates = 0
        /\ ret = Ret("none", "", 0, NoErr, <<>>)
        /\ flags = [update |-> FALSE, withGlobal |-> FALSE, global |-> FALSE]
        /\ LoadedModules = [n \in ModuleNames |-> NoValue]
        /\ esshModule = LNil
        /\ cache = [k \in CacheKeys |-> "absent"]
        /\ evalStack = <<>>
        /\ fetched = [n \in ModuleNames |-> 0]
        /\ evals = [n \in ModuleNames |-> 0]
        /\ captured = [n \in ModuleNames |-> NoValue]
        /\ imports = 0
        /\ jobArena = <<>> /\ Jobs = [n \in JobNames |-> 0]
        /\ hostMaps = <<>> /\ given = <<>> /\ jobCalls = 0
        /\ query = NoQuery
        /\ asked = Asked(0, LNil, <<>>)
        /\ queryRet = QueryRet("none", NoErr, <<>>, {})
        /\ resolved = <<>> /\ invoked = <<>>
        /\ engineRet = EngineRet(0, "", NoErr, 0)
        /\ scriptArg = value /\ scriptRet = toScript(value) /\ nests = 0
        /\ importRet = ImportRet("none", "", NoErr, NoValue, <<>>, 0, NoValue,
                                 [n \in ModuleNames |-> NoValue])
NextScript == scriptOfList \/ scriptOfCallable
SpecScript == InitScript /\ [][NextScript]_vars

\* One task kind: declarations and field updates of tasks.
NextTask == esshTask \/ esshTaskConfig \/ taskCall \/ taskNewindex
SpecTask == Init /\ [][NextTask]_vars

\* Field updates of every entity kind, on entities declared without a config.
NextFields ==
    \/ esshHost \/ esshTask \/ esshDriver \/ esshJob
    \/ hostNewindex \/ taskNewindex \/ driverNewindex \/ jobNewindex
SpecFields == Init /\ [][NextFields]_vars

\* host(name, config) as one step of a script that has already run.
declareHost(w, name, config) ==
    LET declare(r, s) ==
            [w EXCEPT !.hostArena = [r.arena EXCEPT ![r.id] = s.obj], !.Hosts = r.reg,
                      !.declared["host"][name] = Append(@, r.id)]
        setup(r) == With(setupHost(r.arena[r.id], config, <<>>), LAMBDA s : declare(r, s))
    IN With(registerHost(w.hostArena, w.Hosts, name), setup)

\* The state a script reaches by
\*     host "web01" { tags = {"web"} }
\*     local db = host "db01" { tags = {"web", "db"} }
\*     job "deployment" { db }
SelectionRun ==
    LET w0 == [hostArena |-> <<>>, Hosts |-> [n \in HostNames |-> 0],
               taskArena |-> <<>>, Tasks |-> [n \in TaskNames |-> 0],
               driverArena |-> <<>>, Drivers |-> [n \in DriverNames |-> 0],
               taskMarks |-> <<>>, declared |-> [k \in Kinds |-> [n \in NamesOf(k) |-> <<>>]],
               jobArena |-> <<>>, hostMaps |-> <<>>, Jobs |-> [n \in JobNames |-> 0],
               d |-> 0, n |-> 0]
        job(w2) ==
            With(registerJob(w2, "deployment"),
                 LAMBDA r : setupJob(r.w, r.id,
                                     << <<LNumber(1),
                                          LUserData("host", w2.Hosts["db01"])>> >>).w)
        db01(w1) ==
            With(declareHost(w1, "db01",
                             << <<"tags", Array(<<LString("web"), LString("db")>>)>> >>),
                 job)
    IN With(declareHost(w0, "web01", << <<"tags", Array(<<LString("web")>>)>> >>), db01)

\* The value of SelectionRun with its counters at 0, written out: the state
\* that script leaves.
SelectionWorld ==
    [hostArena |-> << [NewHost EXCEPT !.Name = "web01",
                                      !.LValues = [tags |-> Array(<<LString("web")>>)],
                                      !.Tags = <<"web">>],
                      [NewHost EXCEPT !.Name = "db01",
                                      !.LValues = [tags |-> Array(<<LString("web"),
                                                                    LString("db")>>)],
                                      !.Tags = <<"web", "db">>] >>,
     Hosts |-> [web01 |-> 1, db01 |-> 2],
     taskArena |-> <<>>, Tasks |-> [n \in TaskNames |-> 0],
     driverArena |-> <<>>, Drivers |-> [n \in DriverNames |-> 0],
     taskMarks |-> <<>>,
     declared |-> [k \in Kinds |-> [n \in NamesOf(k) |->
                      IF n = "web01" THEN <<1>> ELSE IF n = "db01" THEN <<2>> ELSE <<>>]],
     jobArena |-> << [NewJob EXCEPT !.Name = "deployment", !.Hosts = 1,
                        !.LValues = [hosts |-> Record([db01 |->
                            Record([tags |-> Array(<<LString("web"), LString("db")>>)])])]] >>,
     hostMaps |-> << [db01 |-> 2] >>,
     Jobs |-> [deployment |-> 1],
     d |-> 0, n |-> 0]

\* The start of a run that goes on from SelectionWorld; declares and updates
\* count what the run adds to it.
InitQuery ==
    \E w \in {SelectionWorld} :
        /\ hostArena = w.hostArena /\ Hosts = w.Hosts
        /\ taskArena = w.taskArena /\ Tasks = w.Tasks
        /\ driverArena = w.driverArena /\ Drivers = w.Drivers
        /\ taskMarks = w.taskMarks
        /\ declared = w.declared
        /\ declares = 0 /\ updates = 0
        /\ ret = Ret("none", "", 0, NoErr, <<>>)
        /\ flags = [update |-> FALSE, withGlobal |-> FALSE, global |-> FALSE]
        /\ LoadedModules = [n \in ModuleNames |-> NoValue]
        /\ esshModule = LNil
        /\ cache = [k \in CacheKeys |-> "absent"]
        /\ evalStack = <<>>
        /\ fetched = [n \in ModuleNames |-> 0]
        /\ evals = [n \in ModuleNames |-> 0]
        /\ captured = [n \in ModuleNames |-> NoValue]
        /\ imports = 0
        /\ jobArena = w.jobArena /\ Jobs = w.Jobs
        /\ hostMaps = w.hostMaps /\ given = <<>> /\ jobCalls = 0
        /\ query = NoQuery
        /\ asked = Asked(0, LNil, <<>>)
        /\ queryRet = QueryRet("none", NoErr, <<>>, {})
        /\ resolved = <<>> /\ invoked = <<>>
        /\ engineRet = EngineRet(0, "", NoErr, 0)
        /\ scriptArg = LNil /\ scriptRet = NoScript /\ nests = 0
        /\ importRet = ImportRet("none", "", NoErr, NoValue, <<>>, 0, NoValue,
                                 [n \in ModuleNames |-> NoValue])

\* Host queries, over the hosts and the job of SelectionWorld and the hosts
\* and jobs declared after it.
NextQuery ==
    \/ esshHost \/ esshJob
    \/ esshSelectHosts \/ hostQueryFilter \/ hostQueryGet \/ hostQueryFirst
SpecQuery == InitQuery /\ [][NextQuery]_vars

\* Jobs, with the hosts, tasks and drivers they take, in a run that goes on
\* from SelectionWorld.
NextJob ==
    \/ esshTask \/ esshDriver
    \/ esshJobConfig \/ jobCall
SpecJob == InitQuery /\ [][NextJob]_vars

\* The importer.
NextImport == parseFlags \/ cacheLeftBehind \/ esshImport \/ importReturn \/ importPanic
SpecImport == Init /\ [][NextImport]_vars

Next ==
    \/ esshHost \/ esshHostConfig \/ hostCall \/ hostNewindex
    \/ esshTask \/ esshTaskConfig \/ taskCall \/ taskNewindex
    \/ esshDriver \/ esshDriverConfig \/ driverCall \/ driverNewindex
    \/ parseFlags \/ cacheLeftBehind \/ esshImport \/ importReturn \/ importPanic
    \/ esshJob \/ esshJobConfig \/ jobCall \/ jobNewindex
    \/ esshSelectHosts \/ hostQueryFilter \/ hostQueryGet \/ hostQueryFirst
    \/ driverEngine

Spec == Init /\ [][Next]_vars

\* ------------------------------------------------------------- properties

ArenaOf(kind) ==
    CASE kind = "host" -> hostArena [] kind = "task" -> taskArena [] OTHER -> driverArena
RegistryOf(kind) ==
    CASE kind = "host" -> Hosts [] kind = "task" -> Tasks [] OTHER -> Drivers

\* The instances met by following the override links from instance id.
RECURSIVE OverrideChain(_, _)
OverrideChain(arena, id) ==
    IF id = 0 THEN <<>> ELSE <<id>> \o OverrideChain(arena, arena[id].Child)

\* C1: in the Host, Task and Driver registries, lookup by name gives the most
\* recently declared instance of the name (nil when there is none), the
\* override link of every instance is the instance declared under the name
\* just before it (nil for the first), and the override links from the latest
\* instance lead through every earlier instance of the name, latest first.
C1_RegistryShadowing ==
    \A kind \in Kinds : \A name \in NamesOf(kind) :
        LET d == declared[kind][name]
            arena == ArenaOf(kind)
        IN /\ RegistryOf(kind)[name] = (IF d = <<>> THEN 0 ELSE d[Len(d)])
           /\ \A i \in DOMAIN d : arena[d[i]].Child = (IF i = 1 THEN 0 ELSE d[i - 1])
           /\ OverrideChain(arena, RegistryOf(kind)[name]) = Reverse(d)

\* A driver name declared three times: the latest shadows two earlier ones.
C1_Witness == Len(declared["driver"]["bash"]) >= 3

ValidScript(value) == toScript(value).err = NoErr

\* C3: on one task, a valid script assigned when the last string given to
\* script_file was non-empty, and a non-empty script_file assigned when a
\* valid script was given before, both fail with the mutual-exclusion error,
\* whatever other fields were assigned in between.
C3_MutualExclusion ==
    ret.kind = "task" =>
        \A i \in DOMAIN ret.steps :
            LET st == ret.steps[i]
            IN /\ (st.key = "script" /\ ValidScript(st.value) /\ st.marks.file # "")
                      => st.err = MutexErr
               /\ (st.key = "script_file" /\ toString(st.value).ok /\ st.value.s # ""
                      /\ st.marks.script)
                      => st.err = MutexErr

\* A non-empty script_file rejected on a task that was given a valid script
\* and then a description.
C3_Witness ==
    /\ ret.kind = "task" /\ ret.op = "newindex"
    /\ ret.steps[1].key = "script_file" /\ ret.steps[1].value = LString("run.sh")
    /\ ret.steps[1].marks.script
    /\ "description" \in DOMAIN taskArena[ret.id].LValues
    /\ ret.err = MutexErr

\* C4: no task holds both a non-empty script and a non-empty script-file
\* path, the state after a rejected assignment included.
C4_ScriptXorFile ==
    \A id \in DOMAIN taskArena :
        ~(Len(taskArena[id].Script) > 0 /\ taskArena[id].File # "")

\* C5: once import(name) has completed, a later import(name) issued while no
\* entrypoint is being evaluated returns the value the first one captured and
\* does no fetch, no filesystem check and no evaluation.
C5_RepeatImportIsCacheHit ==
    (importRet.op = "import" /\ importRet.depth = 0 /\ importRet.prior # NoValue)
        => /\ importRet.err = NoErr
           /\ importRet.value = importRet.prior
           /\ importRet.io = <<>>

\* C6: an import call issued while an entrypoint is being evaluated fails
\* with the nested-import error, does no I/O, starts no evaluation and leaves
\* the loaded-module table as it was.
C6_NestedImportRejected ==
    (importRet.op = "import" /\ importRet.depth > 0)
        => /\ importRet.err = NestedErr
           /\ importRet.io = <<>>
           /\ Len(evalStack) = importRet.depth
           /\ LoadedModules = importRet.table
           /\ esshModule # LNil

\* A module that is already loaded is imported from inside the entrypoint of
\* another one, and the call is rejected.
C6_Witness ==
    /\ importRet.op = "import" /\ importRet.depth > 0
    /\ importRet.prior # NoValue
    /\ importRet.err = NestedErr

\* C7: over any sequence of import calls, failed ones included, every import
\* name is fetched at most once and its entrypoint evaluated at most once.
C7_AtMostOneFetchAndEval ==
    \A name \in ModuleNames : fetched[name] <= 1 /\ evals[name] <= 1

\* The field names each entity kind recognizes.
SchemaOf(kind) ==
    CASE kind = "host" ->
            UpperKeys \cup {"props", "tags", "hooks_before_connect", "hooks_after_connect",
                            "hooks_after_disconnect", "description", "hidden"}
      [] kind = "task" ->
            {"backend", "targets", "filters", "description", "pty", "driver", "parallel",
             "privileged", "disabled", "hidden", "script", "script_file", "prefix",
             "prepare", "props", "args"}
      [] kind = "driver" -> {"engine"}
      [] OTHER -> {"description", "hidden", "prepare", "hosts", "tasks", "drivers"}

\* C2: setting a field whose name is not in the schema of its entity fails
\* with an error that names the field, for hosts, tasks, drivers and jobs.
C2_UnknownFieldFails ==
    \A i \in DOMAIN ret.steps :
        ret.steps[i].key \notin SchemaOf(ret.kind)
            => ret.steps[i].err # NoErr /\ ret.steps[i].err.field = ret.steps[i].key

\* The strings a selector value asks for: itself, or its string elements.
AskedStrings(v) ==
    CASE v.t = "string" -> {v.s}
      [] v.t = "table" -> { v.arr[i].s : i \in { k \in DOMAIN v.arr : v.arr[k].t = "string" } }
      [] OTHER -> {}

\* The hosts a script expects of get(): those of the datasource it named that
\* match one of the selectors it gave (any host if it gave none) and every string
\* given to its filter calls.
Expected(a) ==
    LET ds == IF a.job = 0 THEN { Hosts[n] : n \in DOMAIN Hosts } \ {0}
              ELSE { hostMaps[jobArena[a.job].Hosts][n] :
                        n \in DOMAIN hostMaps[jobArena[a.job].Hosts] }
        hit(e, id) == e = hostArena[id].Name \/ \E k \in DOMAIN hostArena[id].Tags :
                                                    hostArena[id].Tags[k] = e
    IN { id \in ds :
            /\ AskedStrings(a.sel) = {} \/ \E e \in AskedStrings(a.sel) : hit(e, id)
            /\ \A c \in DOMAIN a.filters : \A e \in AskedStrings(a.filters[c]) : hit(e, id) }

\* C8: get() returns exactly the hosts of the datasource that match at least
\* one selection (every host when there is none) and every filter, the
\* filters of successive filter calls taken together; no host comes twice.
C8_GetReturnsMatches ==
    [][hostQueryGet =>
          /\ queryRet'.err = NoErr
          /\ SeqToSet(queryRet'.hosts) = Expected(asked)
          /\ Len(queryRet'.hosts) = Cardinality(Expected(asked))]_vars

\* select_hosts({"web", 1, "db01"}):filter("db01"):filter("web"):get() has
\* returned the one host that passes both filters.
C8_Witness ==
    /\ queryRet.op = "get" /\ queryRet.err = NoErr
    /\ asked.sel = Array(<<LString("web"), LNumber(1), LString("db01")>>)
    /\ asked.filters = <<LString("db01"), LString("web")>>
    /\ queryRet.hosts = <<Hosts["db01"]>>
    /\ Cardinality(queryRet.seen) = 2

C10_FirstNeverFails ==
    [][hostQueryFirst =>
          /\ queryRet'.err = NoErr
          /\ queryRet'.hosts = IF GetHosts(query) = <<>> THEN <<>>
                                ELSE <<GetHosts(query)[1]>>]_vars

\* How many times x occurs in the sequence q.
Count(q, x) == Cardinality({ i \in DOMAIN q : q[i] = x })

\* C11: a driver whose engine was set to a string resolves to that string;
\* one whose engine was set to a callback invokes it once per resolution and
\* resolves to the string it returns, or fails if it returns something else.
C11_EngineResolution ==
    /\ \A id \in DOMAIN driverArena :
          LET lv == driverArena[id].LValues
          IN /\ ("engine" \in DOMAIN lv /\ lv["engine"].t \in {"string", "function"})
                    => driverArena[id].Engine = lv["engine"]
             /\ Count(invoked, id) =
                    Cardinality({ i \in DOMAIN resolved :
                                     resolved[i][1] = id /\ resolved[i][2].t = "function" })
    /\ engineRet.id # 0 =>
          LET e == resolved[Len(resolved)][2]
          IN /\ e.t = "string" =>
                    engineRet.err = NoErr /\ engineRet.s = e.s /\ engineRet.calls = 0
             /\ e.t = "function" =>
                    /\ engineRet.calls = 1
                    /\ IF e.ret.t = "string"
                       THEN engineRet.err = NoErr /\ engineRet.s = e.ret.s
                       ELSE engineRet.err # NoErr

\* One driver resolved three times: with a string engine, and twice with a
\* callback engine, the last one returning a number.
C11_Witness ==
    /\ Len(resolved) = 3 /\ Len(invoked) = 2
    /\ resolved[1][1] = resolved[3][1] /\ resolved[2][1] = resolved[3][1]
    /\ \E i \in 1..3 : resolved[i][2].t = "string"
    /\ engineRet.err = EngineReturnErr

\* The arena of a kind, jobs included, in a state given by its four arenas.
BagArena(kind, h, t, d, j) ==
    CASE kind = "host" -> h [] kind = "task" -> t [] kind = "driver" -> d [] OTHER -> j

\* A property bag after the assignments of steps: each key of steps holds the
\* value of the last step that names it, every other key what it held.
Latest(old, steps) ==
    LET keys == { steps[i].key : i \in DOMAIN steps }
        last(k) == CHOOSE i \in DOMAIN steps :
                      steps[i].key = k /\ \A n \in DOMAIN steps : steps[n].key = k => n <= i
    IN [k \in (DOMAIN old) \cup keys |-> IF k \in keys THEN steps[last(k)].value ELSE old[k]]

\* C12: the raw property bag of a host, task, driver or job maps each assigned
\* key to the value of its latest assignment, whether the assignment was
\* accepted or rejected; assignments to one entity leave the bags of the
\* others alone.
C12_BagKeepsLatest ==
    [][\A kind \in Kinds \cup {"job"} :
          LET old == BagArena(kind, hostArena, taskArena, driverArena, jobArena)
              new == BagArena(kind, hostArena', taskArena', driverArena', jobArena')
          IN \A id \in DOMAIN new :
                IF ret'.kind = kind /\ ret'.id = id
                THEN new[id].LValues =
                        Latest(IF id \in DOMAIN old THEN old[id].LValues ELSE EmptyMap,
                               ret'.steps)
                ELSE id \in DOMAIN old => new[id].LValues = old[id].LValues]_vars

\* A driver whose engine was assigned twice, the second time a value that was
\* rejected: the bag holds the rejected value, the typed field the first one.
C12_Witness ==
    /\ ret.kind = "driver" /\ ret.op = "newindex" /\ ret.err # NoErr
    /\ ret.steps[1].key = "engine"
    /\ driverArena[ret.id].LValues["engine"] = LNumber(1)
    /\ driverArena[ret.id].Engine = LString("bash")

\* A table that is a list of strings, and one that maps strings to strings.
StrList(v) == v.t = "table" /\ DOMAIN v.rec = {} /\ \A i \in DOMAIN v.arr : v.arr[i].t = "string"
StrMap(v) == v.t = "table" /\ v.arr = <<>> /\ \A k \in DOMAIN v.rec : v.rec[k].t = "string"

\* The shape each recognized field expects of its value.
RightShape(kind, key, v) ==
    CASE kind = "host" ->
            (CASE IsUpperKey(key) -> v.t = "string"
               [] key = "props" -> StrMap(v)
               [] key = "tags" -> StrList(v)
               [] key \in {"description"} -> v.t = "string"
               [] key = "hidden" -> v.t = "bool"
               [] OTHER -> v.t = "table")
      [] kind = "task" ->
            (CASE key = "backend" -> v \in {LString(TASK_BACKEND_LOCAL), LString(TASK_BACKEND_REMOTE)}
               [] key \in {"targets", "filters"} -> v.t = "string" \/ StrList(v)
               [] key = "args" -> StrList(v)
               [] key \in {"description", "driver", "script_file"} -> v.t = "string"
               [] key \in {"pty", "parallel", "privileged", "disabled", "hidden"} -> v.t = "bool"
               [] key = "script" -> ValidScript(v)
               [] key = "prefix" -> v.t \in {"bool", "string"}
               [] key = "prepare" -> v.t = "function"
               [] OTHER -> StrMap(v))
      [] kind = "driver" -> v.t \in {"string", "function"}
      [] OTHER ->
            (CASE key = "description" -> v.t = "string"
               [] key = "hidden" -> v.t = "bool"
               [] key = "prepare" -> v.t = "function"
               [] OTHER -> v.t = "table")

\* C13: assigning a recognized field a value of the wrong shape fails with an
\* error that names the field, for every entity kind; a non-string backend and
\* a targets, filters or args list with a non-string element are rejected.
C13_WrongShapeFails ==
    \A i \in DOMAIN ret.steps :
        (ret.steps[i].key \in SchemaOf(ret.kind)
            /\ ~RightShape(ret.kind, ret.steps[i].key, ret.steps[i].value))
            => ret.steps[i].err # NoErr /\ ret.steps[i].err.field = ret.steps[i].key

RECURSIVE Flat(_)
RECURSIVE FlatAll(_)
\* The segments of the elements of an array, in index order.
FlatAll(elems) ==
    IF elems = <<>> THEN <<>> ELSE Flat(Head(elems)) \o FlatAll(Tail(elems))
\* The depth-first, index-order list of segments of a script value: a string
\* is one segment {code}, a record one segment of its entries, an array the
\* segments of its elements, a callable element the segments of what it returns.
Flat(v) ==
    CASE v.t = "string" -> << [code |-> v.s] >>
      [] v.t = "function" -> Flat(v.ret)
      [] v.t = "table" /\ v.arr = <<>> ->
            << [k \in DOMAIN v.rec |->
                   IF v.rec[k].t = "string" THEN v.rec[k].s
                   ELSE IF v.rec[k].b THEN "true" ELSE "false"] >>
      [] OTHER -> FlatAll(v.arr)

\* C14: a script value toScript accepts gives the flat list of its segments
\* in depth-first index order, a callable element's segments at the element's
\* position, and every segment has the key "code"; a record without "code"
\* and a value that is neither a string nor a table are rejected.
C14_ToScriptFlattens ==
    /\ scriptRet.err = NoErr =>
           /\ scriptRet.segs = Flat(scriptArg)
           /\ \A i \in DOMAIN scriptRet.segs : "code" \in DOMAIN scriptRet.segs[i]
    /\ (toLTable(scriptArg) /\ scriptArg.arr = <<>> /\ "code" \notin DOMAIN scriptArg.rec)
           => scriptRet.err # NoErr
    /\ (~toLTable(scriptArg) /\ ~toString(scriptArg).ok) => scriptRet.err # NoErr
\* {"a", {f, {code="c", sudo=true}}} with f returning "b": three segments.
C14_Witness ==
    /\ scriptArg = Array(<<LString("a"),
                           Array(<<LFunction(LString("b")),
                                   Record([k \in {"code", "sudo"} |->
                                       IF k = "code" THEN LString("c") ELSE LBool(TRUE)])>>)>>)
    /\ scriptRet.err = NoErr
    /\ scriptRet.segs = << [code |-> "a"], [code |-> "b"], [code |-> "c", sudo |-> "true"] >>

\* C15: each import name has a cache directory of its own: an import that
\* skips the fetch because its cache directory exists finds a directory that
\* no other import name's fetch has filled.
C15_OwnCacheDirectory ==
    (importRet.op = "import" /\ importRet.io # <<>>
        /\ \A i \in DOMAIN importRet.io : importRet.io[i] # "fetch")
        => \A other \in ModuleNames \ {importRet.name} :
               fetched[other] > 0 => Key(other) # Key(importRet.name)

\* C16: the currently-importing marker is set exactly while an entrypoint is
\* being evaluated: with no evaluation under way essh.module is nil, also
\* after an import that failed, and a top-level import is never rejected as
\* nested.
C16_MarkerOnlyWhileEvaluating ==
    /\ (esshModule # LNil) <=> (evalStack # <<>>)
    /\ (importRet.op = "import" /\ importRet.depth = 0) => importRet.err # NestedErr

Fetches(io) == \E i \in DOMAIN io : io[i] = "fetch"
\* C17: a top-level import of a name that is not loaded yet fetches the source
\* iff the refresh is forced or the cache directory of the name's key does
\* not exist, the refresh being forced iff the update flag is set and the
\* registry is not the global one or the override flag is set; an import that
\* skips the fetch leaves the cache directory as it is.
C17_FetchIffForcedOrAbsent ==
    [][(imports' = imports + 1 /\ importRet'.depth = 0
            /\ LoadedModules[importRet'.name] = NoValue)
        => LET forced == flags.update /\ (~flags.global \/ flags.withGlobal)
           IN /\ Fetches(importRet'.io)
                    <=> (forced \/ cache[Key(importRet'.name)] = "absent")
              /\ ~Fetches(importRet'.io) => cache' = cache]_vars

\* The sub-registry of a job for one kind: name -> entity.
JobSub(j, kind) ==
    CASE kind = "host" -> hostMaps[j.Hosts] [] kind = "task" -> j.Tasks [] OTHER -> j.Drivers
KindOf(key) ==
    CASE key = "hosts" -> "host" [] key = "tasks" -> "task" [] OTHER -> "driver"
IsHandle(v) == v.t = "userdata" /\ v.kind \in Kinds

HandleNames(entries, kind) ==
    { ArenaOf(entries[i][2].kind)[entries[i][2].id].Name :
          i \in { x \in DOMAIN entries : /\ toFloat64(entries[x][1])
                                         /\ IsHandle(entries[x][2])
                                         /\ entries[x][2].kind = kind } }

\* C19: a hosts, tasks or drivers map applied to a job replaces the whole
\* sub-registry of that kind: after a declaration or call that succeeded the
\* sub-registry holds the names of the map, those of the positional handles
\* of the same table and, for drivers, the built-in default driver, and
\* nothing else; each name of the map that no positional handle took stands
\* for an entity made by this call, not for one attached earlier.
C19_MapReplacesSubRegistry ==
    [][(jobCalls' = jobCalls + 1 /\ ret'.err = NoErr) =>
          LET j == jobArena'[ret'.id]
              sub(kind) == CASE kind = "host" -> hostMaps'[j.Hosts]
                             [] kind = "task" -> j.Tasks
                             [] OTHER -> j.Drivers
              old(kind) == CASE kind = "host" -> hostArena
                             [] kind = "task" -> taskArena
                             [] OTHER -> driverArena
          IN \A i \in DOMAIN given' :
                 LET k == given'[i][1]
                     v == given'[i][2]
                     kind == KindOf(k.s)
                     handles == HandleNames(given', kind)
                 IN (toString(k).ok /\ k.s \in {"hosts", "tasks", "drivers"}) =>
                        /\ DOMAIN sub(kind) =
                               DOMAIN v.rec \cup handles
                                   \cup (IF kind = "driver" THEN {DefaultDriverName} ELSE {})
                        /\ \A name \in DOMAIN v.rec \ handles :
                               sub(kind)[name] > Len(old(kind))
                        /\ (kind = "driver" /\ DefaultDriverName \notin DOMAIN v.rec \cup handles)
                               => sub(kind)[DefaultDriverName] = DefaultDriver]_vars
\* j { hosts = { web01 = {} } } on the job that had db01: it has web01 only.
C19_Witness ==
    /\ ret.kind = "job" /\ ret.op = "call" /\ ret.err = NoErr
    /\ ret.id = 1
    /\ Len(given) = 1 /\ given[1][1] = LString("hosts")
    /\ DOMAIN hostMaps[jobArena[1].Hosts] = {"web01"}

====
